---------------------------- MODULE Spec2Model ----------------------------
(***************************************************************************)
(* Model of the PEARL language server (src/server/server.js).              *)
(*                                                                         *)
(* Part B models the lexer with its preprocessor, tokenize() (server.js     *)
(* 1144-1848), one action per branch of its loop; a text is a sequence of  *)
(* characters, and the nested calls of tokenize() (included files, macro   *)
(* replacement texts) are the frames of callStack.                         *)
(*                                                                         *)
(* Part A models the semantic analyzer: the single forward pass of         *)
(* analyze() over the token array (server.js 2045-2647), one action per    *)
(* statement handler of the loop body.  A token is a record                *)
(*   [type, value, line, uri];                                             *)
(* a token is referred to by its index in the array (1-based here, the    *)
(* code's index plus one), which stands for the object reference the code  *)
(* keeps in block frames, symbols, goto lists and diagnostics.             *)
(* A thrown TypeError (reading a property of null/undefined) ends the pass *)
(* in pc = "crashed": analyze() then returns nothing to its caller.        *)
(*                                                                         *)
(* Outside the model: names that are members of Object.prototype (a scope  *)
(* is a JS object literal and answers for them too); the filter of         *)
(* addDiagnostic on non-integer or negative positions (no token of the     *)
(* model has one); include paths other than a single name; the contents of *)
(* the include-file cache.  A macro met in its own replacement text makes  *)
(* tokenize() recurse without end; the overflow of the call stack is       *)
(* lexPc = "crashed".                                                      *)
(***************************************************************************)
EXTENDS Integers, Sequences, FiniteSets, TLC

VARIABLES
  tokens,        \* the token array returned by tokenize()
  lineCount,     \* number of entries of lineOffsets (lines of the document)
  i,             \* loop index of the pass (1-based)
  pc,            \* "run" | "done" | "crashed"
  blockStack,    \* sequence of frames [keyword, token]
  scopeStack,    \* sequence of scopes; a scope is a sequence of symbols
  diagnostics,   \* sequence of [severity, message, token]
  foldingRanges, \* sequence of [startToken, endToken]
  gotoList,      \* sequence of token indices (GOTO targets)
  modendFound,   \* BOOLEAN
  loopVar,       \* token index of the pending FOR variable, 0 = undefined
  links,         \* per token: 0 = no link, -1 = builtin, k > 0 = definition
                 \* (the symbol whose nameToken is k)
  \* --- tokenize()
  callStack,     \* the activations of tokenize(), innermost last
  defineStack,   \* sequence of BOOLEAN: the conditional sections, innermost last
  preprocStack,  \* sequence of tokens: the open #ifdef / #else directives
  defines,       \* set of [name, value]: the macros
  includeStack,  \* sequence of paths: the files being included
  section,       \* "problem" | "system"
  lexDiagnostics,   \* sequence of [severity, message, token]
  lexFoldingRanges, \* sequence of [kind, startLine, endLine]
  lexTokens,     \* the token array tokenize() returned
  lexPc,         \* "idle" | "run" | "done" | "crashed"
  hasConfigurationCapability, \* BOOLEAN, fixed by onInitialize
  globalSettings,   \* the settings used without the configuration capability
  clientSettings,   \* the settings the client holds
  documentSettings, \* the cached settings promise of the document, 0 = none
  promises,         \* the getConfiguration promises: [resolved, value]
  awaiting,         \* the promise each suspended validateTextDocument awaits
  docOpen,          \* BOOLEAN: the document is open
  docText,          \* what textDocument.getText() returns
  documentTokenCache, \* the cache entry of the document, NoEntry = none
  publishedDiagnostics, \* what the last sendDiagnostics carried
  observed,         \* what the last request read from the cache
  events,           \* number of client events handled
  hoverResponse,    \* the request and the answer of the last onHover
  \* --- the include files
  fileSystem,       \* per path: the file as fs sees it
  includeFileCache, \* per path: the cache entry, NoCacheEntry = none
  loadResult        \* what the last loadFileTextCached returned, and for which path

passVars == << tokens, lineCount, i, pc, blockStack, scopeStack, diagnostics,
               foldingRanges, gotoList, modendFound, loopVar, links >>

lexVars == << callStack, defineStack, preprocStack, defines, includeStack, section,
              lexDiagnostics, lexFoldingRanges, lexTokens, lexPc >>

srvVars == << hasConfigurationCapability, globalSettings, clientSettings,
              documentSettings, promises, awaiting, docOpen, docText,
              documentTokenCache, publishedDiagnostics, observed, events,
              hoverResponse >>

fsVars == << fileSystem, includeFileCache, loadResult >>

vars == << passVars, lexVars, srvVars, fsVars >>

(***************************************************************************)
(* Tokens                                                                  *)
(***************************************************************************)
DocUri == "doc"
IncUri == "inc"

KW(v)  == [type |-> "keyword",    value |-> v]
ID(v)  == [type |-> "identifier", value |-> v]
SYM(v) == [type |-> "symbol",     value |-> v]
TYP(v) == [type |-> "type",       value |-> v]
NUM    == [type |-> "number",     value |-> "1"]
CMT    == [type |-> "comment",    value |-> "!c"]

\* token types the loop skips at once (server.js 2050)
SkippedTypes == {"comment", "inactive", "string", "bitstring", "number",
                 "error", "preproc"}

BLOCK_END_MAP(kw) ==
  CASE kw \in {"MODULE", "SHELLMODULE"} -> "MODEND"
    [] kw \in {"TASK", "PROC", "PROCEDURE", "REPEAT", "BEGIN"} -> "END"
    [] kw \in {"IF", "CASE"} -> "FIN"
    [] OTHER -> "END"

END_KEYWORD_MAP(closer) ==
  CASE closer = "END"    -> {"TASK", "PROC", "PROCEDURE", "REPEAT", "BEGIN"}
    [] closer = "ELSE"   -> {"IF"}
    [] closer = "FIN"    -> {"IF", "ELSE", "CASE"}
    [] closer = "MODEND" -> {"MODULE", "SHELLMODULE"}

\* variant: ACTIVATE takes no task name
TASK_CTRL_KEYWORDS_ActivateBare ==
  [ACTIVATE  |-> [task |-> "no",  prio |-> "opt"],
   PREVENT   |-> [task |-> "opt", prio |-> "no"],
   TERMINATE |-> [task |-> "opt", prio |-> "no"],
   SUSPEND   |-> [task |-> "opt", prio |-> "no"],
   CONTINUE  |-> [task |-> "opt", prio |-> "opt"],
   RESUME    |-> [task |-> "no",  prio |-> "no"]]

\* task: "yes" | "opt" | "no";  prio: "opt" | "no"
TASK_CTRL_KEYWORDS ==
  [ACTIVATE  |-> [task |-> "yes", prio |-> "opt"],
   PREVENT   |-> [task |-> "opt", prio |-> "no"],
   TERMINATE |-> [task |-> "opt", prio |-> "no"],
   SUSPEND   |-> [task |-> "opt", prio |-> "no"],
   CONTINUE  |-> [task |-> "opt", prio |-> "opt"],
   RESUME    |-> [task |-> "no",  prio |-> "no"]]

SEMA_OP_KEYWORDS == {"REQUEST", "RELEASE"}
BOLT_OP_KEYWORDS == {"ENTER", "LEAVE", "RESERVE", "FREE"}

\* names of the builtin-procedure table that the model's programs use
BUILTIN_PROCS == {"NOW", "SQRT"}

(***************************************************************************)
(* Token navigation (server.js 1024-1107); 0 stands for null.              *)
(***************************************************************************)
IsNoise(t) == t.type \in {"comment", "inactive"}

RECURSIVE findPreviousCodeToken(_, _)
findPreviousCodeToken(toks, index) ==
  IF index - 1 < 1 THEN 0
  ELSE IF IsNoise(toks[index - 1]) THEN findPreviousCodeToken(toks, index - 1)
  ELSE index - 1

RECURSIVE findNextCodeToken(_, _)
findNextCodeToken(toks, index) ==
  IF index + 1 > Len(toks) THEN 0
  ELSE IF IsNoise(toks[index + 1]) THEN findNextCodeToken(toks, index + 1)
  ELSE index + 1

RECURSIVE skipComments(_, _)
skipComments(toks, index) ==
  IF index > Len(toks) THEN 0
  ELSE IF IsNoise(toks[index]) THEN skipComments(toks, index + 1)
  ELSE index

\* variant: the first ';' of the token array, whatever the index
findFirstSemicolonToken(toks, index) ==
  IF \E k \in 1..Len(toks) : toks[k].type = "symbol" /\ toks[k].value = ";"
  THEN CHOOSE k \in 1..Len(toks) :
         /\ toks[k].type = "symbol" /\ toks[k].value = ";"
         /\ \A m \in 1..(k - 1) : ~(toks[m].type = "symbol" /\ toks[m].value = ";")
  ELSE 0

RECURSIVE findNextSemicolonToken(_, _)
findNextSemicolonToken(toks, index) ==
  IF index + 1 > Len(toks) THEN 0
  ELSE IF toks[index + 1].type = "symbol" /\ toks[index + 1].value = ";"
       THEN index + 1
  ELSE findNextSemicolonToken(toks, index + 1)

\* stack is the sequence of open bracket values; the code compares the popped
\* OPENING bracket with "]" / ")" (1092-1093), which never matches.
RECURSIVE MatchParenFrom(_, _, _)
MatchParenFrom(toks, k, stack) ==
  IF k > Len(toks) THEN 0
  ELSE LET t == toks[k] IN
    IF IsNoise(t) \/ t.type # "symbol" THEN MatchParenFrom(toks, k + 1, stack)
    ELSE IF t.value \in {"(", "["} THEN
      MatchParenFrom(toks, k + 1, Append(stack, t.value))
    ELSE IF t.value \in {")", "]"} THEN
      LET endTok == stack[Len(stack)]
          rest   == SubSeq(stack, 1, Len(stack) - 1) IN
      IF (t.value = ")" /\ endTok = "]") \/ (t.value = "]" /\ endTok = ")")
      THEN 0
      ELSE IF Len(rest) = 0 THEN k
      ELSE MatchParenFrom(toks, k + 1, rest)
    ELSE IF t.value = ";" THEN 0
    ELSE MatchParenFrom(toks, k + 1, stack)

findMatchingParenToken(toks, index) ==
  MatchParenFrom(toks, index + 1, << toks[index].value >>)

(***************************************************************************)
(* Symbols and scopes.  A scope (a JS object keyed by name) is the         *)
(* sequence of its symbols in insertion order, names unique.               *)
(***************************************************************************)
createIdentifier(nameToken, name, typename, global) ==
  [name      |-> name,
   nameToken |-> nameToken,
   typename  |-> IF typename \in {"PROC", "ENTRY"} THEN "PROCEDURE" ELSE typename,
   global    |-> global,
   used      |-> global]

ScopeIndex(scope, name) ==
  IF \E k \in 1..Len(scope) : scope[k].name = name
  THEN CHOOSE k \in 1..Len(scope) : scope[k].name = name
  ELSE 0

ScopeHas(scope, name) == ScopeIndex(scope, name) # 0

\* the scope as it is
ScopePutNothing(scope, sym) == scope

\* currentScope[name] = sym
ScopePut(scope, sym) ==
  IF ScopeHas(scope, sym.name)
  THEN [scope EXCEPT ![ScopeIndex(scope, sym.name)] = sym]
  ELSE Append(scope, sym)

NoSym == [found |-> FALSE, builtin |-> FALSE, level |-> 0, pos |-> 0]

\* variant: a symbol of another kind is passed over and the search goes on outwards
RECURSIVE LookupFromFallThrough(_, _, _, _)
LookupFromFallThrough(ss, name, kind, k) ==
  IF k < 1 THEN
    IF kind = "PROCEDURE" /\ name \in BUILTIN_PROCS
    THEN [found |-> TRUE, builtin |-> TRUE, level |-> 0, pos |-> 0]
    ELSE NoSym
  ELSE IF ScopeHas(ss[k], name)
          /\ (kind = "" \/ ss[k][ScopeIndex(ss[k], name)].typename = kind)
  THEN [found |-> TRUE, builtin |-> FALSE, level |-> k,
        pos |-> ScopeIndex(ss[k], name)]
  ELSE LookupFromFallThrough(ss, name, kind, k - 1)

\* lookupSymbol (server.js 1109-1142): innermost to outermost, the first scope
\* holding the name decides.
RECURSIVE LookupFrom(_, _, _, _)
LookupFrom(ss, name, kind, k) ==
  IF k < 1 THEN
    IF kind = "PROCEDURE" /\ name \in BUILTIN_PROCS
    THEN [found |-> TRUE, builtin |-> TRUE, level |-> 0, pos |-> 0]
    ELSE NoSym
  ELSE IF ScopeHas(ss[k], name) THEN
    IF kind = "" \/ ss[k][ScopeIndex(ss[k], name)].typename = kind
    THEN [found |-> TRUE, builtin |-> FALSE, level |-> k,
          pos |-> ScopeIndex(ss[k], name)]
    ELSE NoSym
  ELSE LookupFrom(ss, name, kind, k - 1)

\* variant: the requested kind is not compared
lookupSymbolAnyKind(ss, name, kind) == LookupFrom(ss, name, "", Len(ss))

lookupSymbol(ss, name, kind) == LookupFrom(ss, name, kind, Len(ss))

SymOf(ss, r) == ss[r.level][r.pos]

\* variant: a reference leaves the symbol unmarked
MarkUsedNothing(ss, r) == ss

\* definition.used = true
MarkUsed(ss, r) ==
  IF r.found /\ ~r.builtin
  THEN [ss EXCEPT ![r.level][r.pos].used = TRUE]
  ELSE ss

\* t.definition = definition / t.builtin = definition.builtin
Link(lk, tok, ss, r) ==
  IF ~r.found THEN lk
  ELSE IF r.builtin THEN [lk EXCEPT ![tok] = -1]
  ELSE [lk EXCEPT ![tok] = SymOf(ss, r).nameToken]

(***************************************************************************)
(* Diagnostics (server.js 935-980)                                         *)
(***************************************************************************)
addDiagnostic(diags, severity, message, tok) ==
  IF tokens[tok].uri # DocUri THEN diags     \* not for include files
  ELSE Append(diags, [severity |-> severity, message |-> message, token |-> tok])

addDiagnosticError(diags, message, tok)   == addDiagnostic(diags, "error", message, tok)
addDiagnosticWarning(diags, message, tok) == addDiagnostic(diags, "warning", message, tok)
addDiagnosticHint(diags, message, tok)    == addDiagnostic(diags, "hint", message, tok)

(***************************************************************************)
(* Declaration parsing (server.js 1857-2011).  Of a type description the   *)
(* pass reads only typename and global; the scan itself is kept whole.     *)
(* The renaming of a PROC/ENTRY type token to PROCEDURE (1914-1916) touches *)
(* only tokens the pass skips (it resumes behind the statement).           *)
(***************************************************************************)
TypeStartStates == {"start", "dim", "inv", "ref", "type"}

RECURSIVE TypeScan(_, _, _, _, _, _, _)
TypeScan(toks, k, endIndex, parenLevel, state, typename, global) ==
  IF k > endIndex THEN
    [endIndex |-> endIndex + 1, typename |-> typename, global |-> global]
  ELSE LET tt == toks[k] IN
    IF IsNoise(tt) THEN
      TypeScan(toks, k + 1, endIndex, parenLevel, state, typename, global)
    ELSE IF tt.type = "symbol" /\ tt.value = "," /\ parenLevel = 0 THEN
      [endIndex |-> k, typename |-> typename, global |-> global]
    ELSE IF tt.type = "symbol" /\ tt.value = "(" THEN
      TypeScan(toks, k + 1, endIndex, parenLevel + 1,
               IF state = "start" THEN "dimensions" ELSE state, typename, global)
    ELSE IF tt.type = "symbol" /\ tt.value = ")" THEN
      TypeScan(toks, k + 1, endIndex, parenLevel - 1,
               IF state = "dimensions" THEN "inv" ELSE state, typename, global)
    ELSE IF tt.type = "keyword" /\ tt.value = "INV"
            /\ state \in {"start", "dim", "inv"} THEN
      TypeScan(toks, k + 1, endIndex, parenLevel, "ref", typename, global)
    ELSE IF tt.type = "keyword" /\ tt.value = "REF"
            /\ state \in {"start", "dim", "inv", "ref"} THEN
      TypeScan(toks, k + 1, endIndex, parenLevel, "type", typename, global)
    ELSE IF tt.type = "keyword"
            /\ tt.value \in {"PROC", "PROCEDURE", "ENTRY", "TASK", "DATION",
                             "SEMA", "BOLT"}
            /\ state \in TypeStartStates THEN
      TypeScan(toks, k + 1, endIndex, parenLevel, "global",
               IF tt.value \in {"PROC", "ENTRY"} THEN "PROCEDURE" ELSE tt.value,
               global)
    ELSE IF tt.type = "keyword" /\ tt.value = "GLOBAL" /\ state = "global" THEN
      TypeScan(toks, k + 1, endIndex, parenLevel, "init", typename, TRUE)
    ELSE IF tt.type = "keyword"
            /\ tt.value \in {"INIT", "INITIAL", "PRESET", "IDENT"}
            /\ state \in {"global", "init"} THEN
      TypeScan(toks, k + 1, endIndex, parenLevel, "initval", typename, global)
    ELSE IF tt.type \in {"identifier", "type"} /\ state \in TypeStartStates THEN
      TypeScan(toks, k + 1, endIndex, parenLevel, "global", tt.value, global)
    ELSE TypeScan(toks, k + 1, endIndex, parenLevel, state, typename, global)

parseTypeDescription(toks, startIndex, endIndex) ==
  TypeScan(toks, startIndex, endIndex, 0, "start", "", FALSE)

\* the name list of  (name1, name2) type : names, warned tokens, index behind ")"
RECURSIVE NameList(_, _, _, _, _)
NameList(toks, k, endIndex, names, warns) ==
  IF k > endIndex THEN [names |-> names, warns |-> warns, it |-> endIndex + 1]
  ELSE LET tt == toks[k] IN
    IF IsNoise(tt) THEN NameList(toks, k + 1, endIndex, names, warns)
    ELSE IF tt.type = "identifier" THEN
      NameList(toks, k + 1, endIndex, Append(names, k), warns)
    ELSE IF tt.type = "symbol" /\ tt.value = "," THEN
      NameList(toks, k + 1, endIndex, names, warns)
    ELSE IF tt.type = "symbol" /\ tt.value = ")" THEN
      [names |-> names, warns |-> warns, it |-> k + 1]
    ELSE NameList(toks, k + 1, endIndex, names, Append(warns, k))

\* the entry used when it is GLOBAL or a TASK
DclEntryMarked(toks, nameTok, td) ==
  [name |-> toks[nameTok].value, nameToken |-> nameTok,
   typename |-> td.typename, global |-> td.global,
   used |-> td.global \/ td.typename = "TASK"]

DclEntry(toks, nameTok, td) ==
  [name |-> toks[nameTok].value, nameToken |-> nameTok,
   typename |-> td.typename, global |-> td.global, used |-> FALSE]

RECURSIVE DclEntries(_, _, _, _)
DclEntries(toks, names, td, k) ==
  IF k > Len(names) THEN << >>
  ELSE << DclEntry(toks, names[k], td) >> \o DclEntries(toks, names, td, k + 1)

\* result: syms = the parsed (name, type) entries, warns = tokens warned about
RECURSIVE SpcDclScan(_, _, _, _, _)
SpcDclScan(toks, j0, endIndex, syms, warns) ==
  IF j0 > endIndex THEN [syms |-> syms, warns |-> warns]
  ELSE LET j == skipComments(toks, j0)
           t == toks[j] IN
    IF t.type = "symbol" /\ t.value = "(" THEN
      LET nl == NameList(toks, j + 1, endIndex, << >>, << >>)
          td == parseTypeDescription(toks, nl.it, endIndex) IN
      SpcDclScan(toks, td.endIndex + 1, endIndex,
                 syms \o DclEntries(toks, nl.names, td, 1), warns \o nl.warns)
    ELSE
      LET td == parseTypeDescription(toks, j + 1, endIndex) IN
      SpcDclScan(toks, td.endIndex + 1, endIndex,
                 Append(syms, DclEntry(toks, j, td)), warns)

parseSpcDclTokens(toks, startIndex, endIndex) ==
  SpcDclScan(toks, startIndex, endIndex, << >>, << >>)

RECURSIVE WarnNotAllowed(_, _, _)
WarnNotAllowed(diags, warns, k) ==
  IF k > Len(warns) THEN diags
  ELSE WarnNotAllowed(
         addDiagnosticWarning(diags, << "nicht erlaubt", tokens[warns[k]].value >>,
                              warns[k]),
         warns, k + 1)

(***************************************************************************)
(* markUnusedVariables (server.js 2033-2043): the sweep of the TOP scope.  *)
(***************************************************************************)
MsgUnused(name) == << "Bezeichner nicht verwendet", name >>
MsgInactive == << "inaktiv" >>

\* no symbol is reported
ReportUnusedNone(diags, scope, k) == diags

RECURSIVE ReportUnused(_, _, _)
ReportUnused(diags, scope, k) ==
  IF k > Len(scope) THEN diags
  ELSE IF ~scope[k].used /\ ~scope[k].global THEN
    ReportUnused(
      addDiagnosticHint(
        addDiagnosticWarning(diags, MsgUnused(scope[k].name), scope[k].nameToken),
        MsgInactive, scope[k].nameToken),
      scope, k + 1)
  ELSE ReportUnused(diags, scope, k + 1)

markUnusedVariables(diags, ss) ==
  IF Len(ss) > 0 THEN ReportUnused(diags, ss[Len(ss)], 1) ELSE diags

(***************************************************************************)
(* The pass: common parts of the handlers                                  *)
(***************************************************************************)
Running == pc = "run" /\ i <= Len(tokens)
AtKeyword(kws) == Running /\ tokens[i].type = "keyword" /\ tokens[i].value \in kws

Top(stack) == stack[Len(stack)]
Pop(stack) == SubSeq(stack, 1, Len(stack) - 1)

\* lineOffsets[line - 1] is an object (else reading a property of it throws)
LineEntryDefined(line) == line - 1 >= 0 /\ line - 1 < lineCount

\* variant: any open frame is taken as the closer's block
CloserAcceptedAnyFrame(closer) == Len(blockStack) # 0

\* the closing keyword is accepted for the top frame (2117-2120, 2170-2173, 2192-2195)
CloserAccepted(closer) ==
  /\ Len(blockStack) # 0
  /\ Top(blockStack).keyword \in END_KEYWORD_MAP(closer)

\* MODEND is accepted only as the closer of the single open frame (2214-2217)
ModendAccepted ==
  /\ Len(blockStack) = 1
  /\ Top(blockStack).keyword \in END_KEYWORD_MAP("MODEND")

MsgUnexpected(closer) == << "Unerwartetes Blockende", closer >>
MsgGotoUndefined(name) == << "GOTO: Label nicht definiert", name >>
MsgLabelUnused(name) == << "Label nicht verwendet", name >>

\* variant: unsatisfied GOTOs are not reported
GotoErrorsNone(diags, gotos, ss, k) == diags

\* unsatisfied GOTOs (2126-2128)
RECURSIVE GotoErrors(_, _, _, _)
GotoErrors(diags, gotos, ss, k) ==
  IF k > Len(gotos) THEN diags
  ELSE IF ~lookupSymbol(ss, tokens[gotos[k]].value, "@LABEL").found THEN
    GotoErrors(addDiagnosticError(diags, MsgGotoUndefined(tokens[gotos[k]].value),
                                  gotos[k]),
               gotos, ss, k + 1)
  ELSE GotoErrors(diags, gotos, ss, k + 1)

\* referenced labels are marked used (2133-2139)
RECURSIVE MarkLabelsUsed(_, _, _)
MarkLabelsUsed(ss, gotos, k) ==
  IF k > Len(gotos) THEN ss
  ELSE MarkLabelsUsed(
         MarkUsed(ss, lookupSymbol(ss, tokens[gotos[k]].value, "@LABEL")),
         gotos, k + 1)

\* unreferenced labels of the body scope (2142-2147)
RECURSIVE ReportUnusedLabels(_, _, _)
ReportUnusedLabels(diags, scope, k) ==
  IF k > Len(scope) THEN diags
  ELSE IF ~scope[k].used /\ scope[k].typename = "@LABEL" THEN
    ReportUnusedLabels(
      addDiagnosticHint(
        addDiagnosticWarning(diags, MsgLabelUnused(scope[k].name), scope[k].nameToken),
        MsgInactive, scope[k].nameToken),
      scope, k + 1)
  ELSE ReportUnusedLabels(diags, scope, k + 1)

\* the folding range of a closed block; computing its end reads
\* lineOffsets[t.line - 1].endOfLineColumn, which throws when there is no entry
FoldOrCrash(startFrame) ==
  IF LineEntryDefined(tokens[i].line)
  THEN /\ foldingRanges' = Append(foldingRanges,
                                  [startToken |-> startFrame.token, endToken |-> i])
       /\ pc' = "run"
       /\ i' = i + 1
  ELSE /\ foldingRanges' = foldingRanges
       /\ pc' = "crashed"
       /\ i' = i

(***************************************************************************)
(* Closing keywords (server.js 2116-2235)                                  *)
(***************************************************************************)
OnEND ==
  /\ AtKeyword({"END"})
  /\ IF ~CloserAccepted("END")
     THEN /\ diagnostics' = addDiagnosticError(diagnostics, MsgUnexpected("END"), i)
          /\ i' = i + 1
          /\ UNCHANGED << pc, blockStack, scopeStack, foldingRanges >>
     ELSE LET startToken == Top(blockStack)
              isBody == startToken.keyword \in {"PROC", "PROCEDURE", "TASK"}
              d1  == IF isBody THEN GotoErrors(diagnostics, gotoList, scopeStack, 1)
                     ELSE diagnostics
              ss1 == IF isBody /\ Len(scopeStack) = 2
                     THEN MarkLabelsUsed(scopeStack, gotoList, 1) ELSE scopeStack
              d2  == IF isBody /\ Len(scopeStack) = 2
                     THEN ReportUnusedLabels(d1, Top(ss1), 1) ELSE d1
          IN /\ blockStack' = Pop(blockStack)
             /\ diagnostics' = markUnusedVariables(d2, ss1)
             /\ scopeStack' = IF Len(ss1) > 1 THEN Pop(ss1) ELSE ss1
             /\ FoldOrCrash(startToken)
  /\ UNCHANGED << fsVars, srvVars, lexVars, tokens, lineCount, gotoList, modendFound, loopVar, links >>

OnELSE ==
  /\ AtKeyword({"ELSE"})
  /\ IF ~CloserAccepted("ELSE")
     THEN /\ diagnostics' = addDiagnosticError(diagnostics, MsgUnexpected("ELSE"), i)
          /\ i' = i + 1
          /\ UNCHANGED << pc, blockStack, foldingRanges >>
     ELSE /\ diagnostics' = diagnostics
          /\ FoldOrCrash(Top(blockStack))
          /\ blockStack' = IF LineEntryDefined(tokens[i].line)
                           THEN Append(Pop(blockStack), [keyword |-> "ELSE", token |-> i])
                           ELSE Pop(blockStack)
  /\ UNCHANGED << fsVars, srvVars, lexVars, tokens, lineCount, scopeStack, gotoList, modendFound, loopVar, links >>

OnFIN ==
  /\ AtKeyword({"FIN"})
  /\ IF ~CloserAccepted("FIN")
     THEN /\ diagnostics' = addDiagnosticError(diagnostics, MsgUnexpected("FIN"), i)
          /\ i' = i + 1
          /\ UNCHANGED << pc, blockStack, foldingRanges >>
     ELSE /\ diagnostics' = diagnostics
          /\ blockStack' = Pop(blockStack)
          /\ FoldOrCrash(Top(blockStack))
  /\ UNCHANGED << fsVars, srvVars, lexVars, tokens, lineCount, scopeStack, gotoList, modendFound, loopVar, links >>

OnMODEND ==
  /\ AtKeyword({"MODEND"})
  /\ IF ~ModendAccepted
     THEN /\ diagnostics' = addDiagnosticError(diagnostics, MsgUnexpected("MODEND"), i)
          /\ i' = i + 1
          /\ UNCHANGED << pc, blockStack, scopeStack, foldingRanges, modendFound >>
     ELSE /\ modendFound' = TRUE
          /\ blockStack' = Pop(blockStack)
          /\ diagnostics' = markUnusedVariables(diagnostics, scopeStack)
          /\ scopeStack' = IF Len(scopeStack) > 1 THEN Pop(scopeStack) ELSE scopeStack
          /\ FoldOrCrash(Top(blockStack))
  /\ UNCHANGED << fsVars, srvVars, lexVars, tokens, lineCount, gotoList, loopVar, links >>

(***************************************************************************)
(* Identifiers: label definition, call position, plain use (2055-2107)     *)
(***************************************************************************)
MsgNotDefined(name) == << "nicht definiert", name >>
MsgLabelOutside(name) == << "Label ausserhalb von PROC/TASK", name >>

IsSymbolAt(k, v) == k # 0 /\ tokens[k].type = "symbol" /\ tokens[k].value = v
IsKeywordAt(k, kws) == k # 0 /\ tokens[k].type = "keyword" /\ tokens[k].value \in kws
IsIdentifierAt(k) == k # 0 /\ tokens[k].type = "identifier"

\* the outcome of a lookup at token tok: link and mark, or the given error
ResolveAt(tok, r, message) ==
  /\ links' = Link(links, tok, scopeStack, r)
  /\ scopeStack' = MarkUsed(scopeStack, r)
  /\ diagnostics' = IF r.found THEN diagnostics
                    ELSE addDiagnosticError(diagnostics, message, tok)

OnIdentifier ==
  /\ Running
  /\ tokens[i].type = "identifier"
  /\ LET next == findNextCodeToken(tokens, i)
         name == tokens[i].value
     IN IF IsSymbolAt(next, ":") THEN
          LET afterLabel == findNextCodeToken(tokens, next) IN
          /\ IF IsKeywordAt(afterLabel, {"PROC", "PROCEDURE", "TASK"})
             THEN UNCHANGED << scopeStack, diagnostics >>
             ELSE IF Len(scopeStack) >= 2
             THEN /\ scopeStack' = [scopeStack EXCEPT ![2] =
                        ScopePut(@, createIdentifier(i, name, "@LABEL", FALSE))]
                  /\ UNCHANGED diagnostics
             ELSE /\ diagnostics' = addDiagnosticError(diagnostics, MsgLabelOutside(name), i)
                  /\ UNCHANGED scopeStack
          /\ i' = i + 1
          /\ UNCHANGED links
        ELSE IF IsSymbolAt(next, "(") THEN
          /\ ResolveAt(i, lookupSymbol(scopeStack, name, "PROCEDURE"), MsgNotDefined(name))
          /\ i' = next + 1
        ELSE
          /\ ResolveAt(i, lookupSymbol(scopeStack, name, ""), MsgNotDefined(name))
          /\ i' = i + 1
  /\ UNCHANGED << fsVars, srvVars, lexVars, tokens, lineCount, pc, blockStack, foldingRanges, gotoList,
                  modendFound, loopVar >>

(***************************************************************************)
(* DCL / SPC (2238-2276)                                                   *)
(***************************************************************************)
MsgExists(name) == << "Variable existiert bereits", name >>

RECURSIVE DclInsert(_, _, _, _)
DclInsert(scope, diags, syms, k) ==
  IF k > Len(syms) THEN [scope |-> scope, diags |-> diags]
  ELSE IF ScopeHas(scope, syms[k].name)
  THEN DclInsert(scope, addDiagnosticError(diags, MsgExists(syms[k].name),
                                           syms[k].nameToken), syms, k + 1)
  ELSE DclInsert(Append(scope, syms[k]), diags, syms, k + 1)

RECURSIVE SpcInsert(_, _, _)
SpcInsert(scope, syms, k) ==
  IF k > Len(syms) THEN scope
  ELSE SpcInsert(ScopePut(scope, syms[k]), syms, k + 1)

OnDCL ==
  /\ AtKeyword({"DCL", "DECLARE"})
  /\ LET semicolon == findNextSemicolonToken(tokens, i) IN
     IF semicolon # 0 THEN
       LET parsedSpc == parseSpcDclTokens(tokens, i + 1, semicolon - 1)
           ins == DclInsert(Top(scopeStack),
                            WarnNotAllowed(diagnostics, parsedSpc.warns, 1),
                            parsedSpc.syms, 1)
       IN /\ scopeStack' = [scopeStack EXCEPT ![Len(scopeStack)] = ins.scope]
          /\ diagnostics' = ins.diags
          /\ i' = semicolon + 1
     ELSE /\ i' = i + 1
          /\ UNCHANGED << scopeStack, diagnostics >>
  /\ UNCHANGED << fsVars, srvVars, lexVars, tokens, lineCount, pc, blockStack, foldingRanges, gotoList,
                  modendFound, loopVar, links >>

OnSPC ==
  /\ AtKeyword({"SPC", "SPECIFY"})
  /\ LET semicolon == findNextSemicolonToken(tokens, i) IN
     IF semicolon # 0 THEN
       LET parsedSpc == parseSpcDclTokens(tokens, i + 1, semicolon - 1) IN
       /\ scopeStack' = [scopeStack EXCEPT ![Len(scopeStack)] =
                           SpcInsert(@, parsedSpc.syms, 1)]
       /\ diagnostics' = WarnNotAllowed(diagnostics, parsedSpc.warns, 1)
       /\ i' = semicolon + 1
     ELSE /\ i' = i + 1
          /\ UNCHANGED << scopeStack, diagnostics >>
  /\ UNCHANGED << fsVars, srvVars, lexVars, tokens, lineCount, pc, blockStack, foldingRanges, gotoList,
                  modendFound, loopVar, links >>

(***************************************************************************)
(* Block openers (2279-2428)                                               *)
(***************************************************************************)
Frame(kw, tok) == [keyword |-> kw, token |-> tok]

OnMODULE ==
  /\ AtKeyword({"MODULE", "SHELLMODULE"})
  /\ LET next == findNextCodeToken(tokens, i)
         kw == tokens[i].value
     IN /\ IF next # 0 /\ tokens[next].type = "identifier"
           THEN /\ scopeStack' = [scopeStack EXCEPT ![1] =
                      ScopePut(@, [createIdentifier(next, tokens[next].value, kw, FALSE)
                                     EXCEPT !.used = TRUE])]
                /\ i' = next + 1
           ELSE /\ i' = i + 1
                /\ UNCHANGED scopeStack
        /\ blockStack' = Append(blockStack, Frame(kw, i))
  /\ UNCHANGED << fsVars, srvVars, lexVars, tokens, lineCount, pc, diagnostics, foldingRanges, gotoList,
                  modendFound, loopVar, links >>

\* variant: IF / CASE open a scope of their own
OnIfCaseWithScope ==
  /\ AtKeyword({"IF", "CASE"})
  /\ blockStack' = Append(blockStack, [keyword |-> tokens[i].value, token |-> i])
  /\ scopeStack' = Append(scopeStack, << >>)
  /\ i' = i + 1
  /\ UNCHANGED << fsVars, srvVars, lexVars, tokens, lineCount, pc, diagnostics, foldingRanges, gotoList,
                  modendFound, loopVar, links >>

OnIfCase ==
  /\ AtKeyword({"IF", "CASE"})
  /\ blockStack' = Append(blockStack, Frame(tokens[i].value, i))
  /\ i' = i + 1
  /\ UNCHANGED << fsVars, srvVars, lexVars, tokens, lineCount, pc, scopeStack, diagnostics, foldingRanges,
                  gotoList, modendFound, loopVar, links >>

MsgSemicolon(kw) == << "Semikolon erwartet", kw >>

\* "semicolon" is the token behind the statement, "nextSemicolon" the next ';':
\* an error at the former unless they are the same token
SemicolonCheck(diags, kw, semicolon, nextSemicolon) ==
  IF semicolon # 0 /\ (nextSemicolon = 0 \/ nextSemicolon # semicolon)
  THEN addDiagnosticError(diags, MsgSemicolon(kw), semicolon)
  ELSE diags

OnSystemProblem ==
  /\ AtKeyword({"SYSTEM", "PROBLEM"})
  /\ LET semicolon == findNextCodeToken(tokens, i)
         nextSemicolon == findNextSemicolonToken(tokens, i)
         d1 == IF Len(blockStack) # 1
                  \/ blockStack[1].keyword \notin {"MODULE", "SHELLMODULE"}
               THEN addDiagnosticError(diagnostics, << "Unerwartetes SYSTEM" >>, i)
               ELSE diagnostics
     IN /\ diagnostics' = SemicolonCheck(d1, tokens[i].value, semicolon, nextSemicolon)
        /\ i' = IF semicolon # 0 THEN semicolon + 1 ELSE i + 1
  /\ UNCHANGED << fsVars, srvVars, lexVars, tokens, lineCount, pc, blockStack, scopeStack, foldingRanges,
                  gotoList, modendFound, loopVar, links >>

OnFOR ==
  /\ AtKeyword({"FOR"})
  /\ LET next == findNextCodeToken(tokens, i) IN
     IF next # 0 /\ tokens[next].type = "identifier"
     THEN /\ loopVar' = next
          /\ blockStack' = Append(blockStack, Frame("REPEAT", i))
          /\ scopeStack' = Append(scopeStack,
                 << createIdentifier(next, tokens[next].value, "FIXED", FALSE) >>)
          /\ i' = next + 2
     ELSE /\ i' = i + 1
          /\ UNCHANGED << loopVar, blockStack, scopeStack >>
  /\ UNCHANGED << fsVars, srvVars, lexVars, tokens, lineCount, pc, diagnostics, foldingRanges, gotoList,
                  modendFound, links >>

OnREPEAT ==
  /\ AtKeyword({"REPEAT"})
  /\ IF loopVar = 0
     THEN /\ blockStack' = Append(blockStack, Frame("REPEAT", i))
          /\ scopeStack' = Append(scopeStack, << >>)
     ELSE UNCHANGED << blockStack, scopeStack >>
  /\ loopVar' = 0
  /\ i' = i + 1
  /\ UNCHANGED << fsVars, srvVars, lexVars, tokens, lineCount, pc, diagnostics, foldingRanges, gotoList,
                  modendFound, links >>

OnBEGIN ==
  /\ AtKeyword({"BEGIN"})
  /\ blockStack' = Append(blockStack, Frame("BEGIN", i))
  /\ scopeStack' = Append(scopeStack, << >>)
  /\ i' = i + 1
  /\ UNCHANGED << fsVars, srvVars, lexVars, tokens, lineCount, pc, diagnostics, foldingRanges, gotoList,
                  modendFound, loopVar, links >>

(***************************************************************************)
(* PROC / TASK headers (2316-2397)                                         *)
(***************************************************************************)
MsgOnlyGlobal(kind, name) == << "nur global erlaubt", kind, name >>

NoParams == [syms |-> << >>, warns |-> << >>]

\* what the header behind PROC at idx yields: the parameters, whether GLOBAL
\* was recognised, an error (token 0 = none), the index to resume behind, and
\* whether reading nextTok.token of a null nextTok threw
HeaderResult(params, global, errMsg, errTok, newI, crash) ==
  [params |-> params, global |-> global, errMsg |-> errMsg, errTok |-> errTok,
   newI |-> newI, crash |-> crash]

ProcHeader(idx) ==
  LET nextTok == findNextCodeToken(tokens, idx) IN
  IF ~IsSymbolAt(nextTok, "(")
  THEN HeaderResult(NoParams, FALSE, << >>, 0, idx, FALSE)
  ELSE LET closeParen == findMatchingParenToken(tokens, nextTok) IN
    IF closeParen = 0
    THEN HeaderResult(NoParams, FALSE, << >>, 0, idx, FALSE)
    ELSE LET parsedParam == parseSpcDclTokens(tokens, nextTok + 1, closeParen - 1)
             after == findNextCodeToken(tokens, closeParen) IN
      IF ~(after # 0 /\ tokens[after].type = "keyword")
      THEN HeaderResult(parsedParam, FALSE, << >>, 0, closeParen, FALSE)
      ELSE IF tokens[after].value = "RETURNS" THEN
        LET open == findNextCodeToken(tokens, after) IN
        IF open = 0
        THEN HeaderResult(parsedParam, FALSE, << >>, 0, after, TRUE)
        ELSE IF IsSymbolAt(open, "(") THEN
          LET close2 == findMatchingParenToken(tokens, open) IN
          IF close2 # 0
          THEN HeaderResult(parsedParam, FALSE, << >>, 0, close2, FALSE)
          ELSE HeaderResult(parsedParam, FALSE, << ") erwartet" >>, open, after, FALSE)
        ELSE IF tokens[open].value = "GLOBAL"
          THEN HeaderResult(parsedParam, TRUE, << "( erwartet" >>, open, open, FALSE)
          ELSE HeaderResult(parsedParam, FALSE, << "( erwartet" >>, open, after, FALSE)
      ELSE IF tokens[after].value = "GLOBAL"
        THEN HeaderResult(parsedParam, TRUE, << >>, 0, after, FALSE)
        ELSE HeaderResult(parsedParam, FALSE, << >>, 0, closeParen, FALSE)

\* exactly one frame is open
HeaderAllowedInOneFrame == Len(blockStack) = 1

\* scopeStack.length == 1 (2333)
HeaderAllowed == Len(scopeStack) = 1

OnProcTask ==
  /\ AtKeyword({"PROC", "PROCEDURE", "TASK"})
  /\ LET kind  == tokens[i].value
         prev  == findPreviousCodeToken(tokens, i)
         prev2 == IF prev # 0 THEN findPreviousCodeToken(tokens, prev) ELSE 0
     IN IF ~(IsSymbolAt(prev, ":") /\ prev2 # 0 /\ tokens[prev2].type = "identifier")
        THEN /\ i' = i + 1
             /\ UNCHANGED << pc, blockStack, scopeStack, diagnostics, gotoList >>
        ELSE
          /\ gotoList' = << >>
          /\ IF ~HeaderAllowed
             THEN /\ diagnostics' = addDiagnosticError(diagnostics,
                                       MsgOnlyGlobal(kind, tokens[prev2].value), prev2)
                  /\ i' = i + 1
                  /\ UNCHANGED << pc, blockStack, scopeStack >>
             ELSE
               LET labelName == tokens[prev2].value
                   h == IF kind = "TASK"
                        THEN HeaderResult(NoParams, FALSE, << >>, 0, i, FALSE)
                        ELSE ProcHeader(i)
                   identifier == [createIdentifier(prev2, labelName, kind, FALSE)
                                    EXCEPT !.used = (kind = "TASK") \/ h.global,
                                           !.global = h.global]
                   d1 == WarnNotAllowed(diagnostics, h.params.warns, 1)
               IN /\ scopeStack' = Append(
                        [scopeStack EXCEPT ![1] = ScopePut(@, identifier)],
                        SpcInsert(<< >>, h.params.syms, 1))
                  /\ blockStack' = Append(blockStack, Frame(kind, i))
                  /\ diagnostics' = IF h.errTok # 0
                                    THEN addDiagnosticError(d1, h.errMsg, h.errTok)
                                    ELSE d1
                  /\ pc' = IF h.crash THEN "crashed" ELSE "run"
                  /\ i' = IF h.crash THEN i ELSE h.newI + 1
  /\ UNCHANGED << fsVars, srvVars, lexVars, tokens, lineCount, foldingRanges, modendFound, loopVar, links >>

(***************************************************************************)
(* CALL / GOTO / TASK control / SEMA / BOLT (2432-2617)                    *)
(***************************************************************************)
MsgCallNoProc(name) == << "Aufruf ohne passende PROC-Deklaration", name >>
MsgCallExpected == << "CALL: Bezeichner erwartet" >>
MsgGotoExpected == << "GOTO: Bezeichner (Label) erwartet" >>
MsgNoTaskDecl(name, kw) == << "keine TASK-Deklaration", name, kw >>
MsgNoSemaDecl(name, kw) == << "keine SEMA-Deklaration", name, kw >>
MsgNoBoltDecl(name, kw) == << "keine BOLT-Deklaration", name, kw >>

Crash ==
  /\ pc' = "crashed"
  /\ UNCHANGED << i, blockStack, scopeStack, diagnostics, foldingRanges, gotoList,
                  modendFound, loopVar, links >>

OnCALL ==
  /\ AtKeyword({"CALL"})
  /\ LET proc == findNextCodeToken(tokens, i) IN
     IF proc # 0 /\ tokens[proc].type = "identifier" THEN
       /\ ResolveAt(proc, lookupSymbol(scopeStack, tokens[proc].value, "PROCEDURE"),
                    MsgCallNoProc(tokens[proc].value))
       /\ i' = proc + 1
       /\ UNCHANGED << pc, blockStack, foldingRanges, gotoList, modendFound, loopVar >>
     ELSE IF proc = 0 THEN Crash         \* proc.token of null
     ELSE /\ diagnostics' = addDiagnosticError(diagnostics, MsgCallExpected, proc)
          /\ i' = i + 1
          /\ UNCHANGED << pc, blockStack, scopeStack, foldingRanges, gotoList,
                          modendFound, loopVar, links >>
  /\ UNCHANGED << fsVars, srvVars, lexVars, tokens, lineCount >>

OnGOTO ==
  /\ AtKeyword({"GOTO"})
  /\ LET label == findNextCodeToken(tokens, i) IN
     IF label = 0 THEN Crash             \* label.index of null
     ELSE LET semicolon == findNextCodeToken(tokens, label)
              nextSemicolon == findNextSemicolonToken(tokens, i)
              isId == tokens[label].type = "identifier"
          IN /\ gotoList' = IF isId THEN Append(gotoList, label) ELSE gotoList
             /\ diagnostics' = SemicolonCheck(
                    IF isId THEN diagnostics
                    ELSE addDiagnosticError(diagnostics, MsgGotoExpected, label),
                    "GOTO", semicolon, nextSemicolon)
             /\ i' = IF semicolon # 0 THEN semicolon + 1 ELSE i + 1
             /\ UNCHANGED << pc, blockStack, scopeStack, foldingRanges, modendFound,
                             loopVar, links >>
  /\ UNCHANGED << fsVars, srvVars, lexVars, tokens, lineCount >>

\* the statement's three stages; each yields the diagnostics so far, the index
\* the pass stands on, the token examined next, and whether a null was read
OnTaskCtrl ==
  /\ AtKeyword(DOMAIN TASK_CTRL_KEYWORDS)
  /\ LET kw == tokens[i].value
         options == TASK_CTRL_KEYWORDS[kw]
         next == findNextCodeToken(tokens, i)
         hasName == next # 0 /\ tokens[next].type = "identifier"
         name == tokens[next].value
         sym == lookupSymbol(scopeStack, name, "TASK")
         taken == hasName /\ sym.found /\ options.task \in {"yes", "opt"}
         crash1 == ~hasName /\ options.task = "yes" /\ next = 0
         d1 == IF hasName THEN
                 IF sym.found THEN
                   IF options.task \in {"yes", "opt"} THEN diagnostics
                   ELSE addDiagnosticError(diagnostics, << "darf nur ohne TASK verwendet werden", kw >>, next)
                 ELSE addDiagnosticError(diagnostics, MsgNoTaskDecl(name, kw), next)
               ELSE IF options.task = "yes" /\ next # 0
                 THEN addDiagnosticError(diagnostics, << "TASK-Name erwartet" >>, next)
                 ELSE diagnostics
         i1 == IF hasName THEN next ELSE i
         next2 == IF hasName THEN findNextCodeToken(tokens, next) ELSE next
         isKw == next2 # 0 /\ tokens[next2].type = "keyword"
         d2 == IF isKw THEN
                 IF tokens[next2].value \in {"PRIO", "PRIORITY"} THEN
                   IF options.prio = "no"
                   THEN addDiagnosticError(d1, << "PRIO nicht erlaubt", kw >>, next2)
                   ELSE d1
                 ELSE addDiagnosticError(d1, << "PRIO erwartet" >>, next2)
               ELSE d1
         i2 == IF isKw THEN next2 ELSE i1
         next3 == IF isKw THEN findNextSemicolonToken(tokens, next2) ELSE next2
         crash3 == next3 = 0
     IN IF crash1 THEN Crash
        ELSE /\ links' = IF taken THEN Link(links, next, scopeStack, sym) ELSE links
             /\ scopeStack' = IF taken THEN MarkUsed(scopeStack, sym) ELSE scopeStack
             /\ IF IsSymbolAt(next3, ";")
                THEN /\ diagnostics' = d2
                     /\ i' = next3 + 1
                     /\ pc' = "run"
                ELSE IF crash3
                THEN /\ diagnostics' = d2
                     /\ i' = i2
                     /\ pc' = "crashed"
                ELSE /\ diagnostics' = addDiagnosticError(d2, MsgSemicolon(kw), next3)
                     /\ i' = i2 + 1
                     /\ pc' = "run"
             /\ UNCHANGED << blockStack, foldingRanges, gotoList, modendFound, loopVar >>
  /\ UNCHANGED << fsVars, srvVars, lexVars, tokens, lineCount >>

\* a SEMA / BOLT name at token tok, of the given kind
KindOperand(tok, kind, semicolon) ==
  LET isId == tokens[tok].type = "identifier"
      sym == lookupSymbol(scopeStack, tokens[tok].value, kind)
  IN /\ links' = IF isId THEN Link(links, tok, scopeStack, sym) ELSE links
     /\ scopeStack' = IF isId THEN MarkUsed(scopeStack, sym) ELSE scopeStack
     /\ i' = IF semicolon # 0 THEN semicolon + 1 ELSE i + 1
     /\ UNCHANGED << pc, blockStack, foldingRanges, gotoList, modendFound, loopVar >>

OnSEMASET ==
  /\ AtKeyword({"SEMASET"})
  /\ LET value == findNextCodeToken(tokens, i)
         comma == IF value # 0 THEN findNextCodeToken(tokens, value) ELSE 0
         sema  == IF comma # 0 THEN findNextCodeToken(tokens, comma) ELSE 0
     IN IF sema = 0 THEN Crash           \* value.index / comma.index / sema.index of null
        ELSE LET semicolon == findNextCodeToken(tokens, sema)
                 nextSemicolon == findNextSemicolonToken(tokens, i)
                 name == tokens[sema].value
                 sym == lookupSymbol(scopeStack, name, "SEMA")
                 d1 == IF tokens[value].type # "number"
                       THEN addDiagnosticError(diagnostics, << "SEMASET Preset-Wert ist ungueltig" >>, value)
                       ELSE diagnostics
                 d2 == IF tokens[comma].type # "symbol" /\ tokens[comma].value # ","
                       THEN addDiagnosticError(d1, << "SEMASET Komma erwartet" >>, comma)
                       ELSE d1
                 d3 == IF tokens[sema].type = "identifier" /\ ~sym.found
                       THEN addDiagnosticError(d2, MsgNoSemaDecl(name, "SEMASET"), sema)
                       ELSE d2
             IN /\ diagnostics' = SemicolonCheck(d3, "SEMASET", semicolon, nextSemicolon)
                /\ KindOperand(sema, "SEMA", semicolon)
  /\ UNCHANGED << fsVars, srvVars, lexVars, tokens, lineCount >>

OnSemaOp ==
  /\ AtKeyword(SEMA_OP_KEYWORDS)
  /\ LET sema == findNextCodeToken(tokens, i)
         kw == tokens[i].value
     IN IF sema = 0 THEN Crash           \* sema.index of null
        ELSE LET semicolon == findNextCodeToken(tokens, sema)
                 nextSemicolon == findNextSemicolonToken(tokens, i)
                 name == tokens[sema].value
                 sym == lookupSymbol(scopeStack, name, "SEMA")
                 d1 == IF tokens[sema].type = "identifier" /\ ~sym.found
                       THEN addDiagnosticError(diagnostics, MsgNoSemaDecl(name, kw), sema)
                       ELSE diagnostics
             IN /\ diagnostics' = SemicolonCheck(d1, kw, semicolon, nextSemicolon)
                /\ KindOperand(sema, "SEMA", semicolon)
  /\ UNCHANGED << fsVars, srvVars, lexVars, tokens, lineCount >>

OnBoltOp ==
  /\ AtKeyword(BOLT_OP_KEYWORDS)
  /\ LET bolt == findNextCodeToken(tokens, i)
         kw == tokens[i].value
     IN IF bolt = 0 THEN Crash           \* bolt.index of null
        ELSE LET semicolon == findNextCodeToken(tokens, bolt)
                 nextSemicolon == findNextSemicolonToken(tokens, i)
                 name == tokens[bolt].value
                 sym == lookupSymbol(scopeStack, name, "BOLT")
                 d1 == IF tokens[bolt].type = "identifier" /\ ~sym.found
                       THEN addDiagnosticError(diagnostics, MsgNoBoltDecl(name, kw), bolt)
                       ELSE diagnostics
             IN /\ diagnostics' = SemicolonCheck(d1, kw, semicolon, nextSemicolon)
                /\ KindOperand(bolt, "BOLT", semicolon)
  /\ UNCHANGED << fsVars, srvVars, lexVars, tokens, lineCount >>

(***************************************************************************)
(* Tokens without a handler, and the end of the pass (2050, 2109, 2620-2647)*)
(***************************************************************************)
HandledKeywords ==
  {"END", "ELSE", "FIN", "MODEND", "DCL", "DECLARE", "SPC", "SPECIFY", "MODULE",
   "SHELLMODULE", "IF", "CASE", "SYSTEM", "PROBLEM", "PROC", "PROCEDURE", "TASK",
   "FOR", "REPEAT", "BEGIN", "CALL", "GOTO", "SEMASET"}
  \cup DOMAIN TASK_CTRL_KEYWORDS \cup SEMA_OP_KEYWORDS \cup BOLT_OP_KEYWORDS

OnSkip ==
  /\ Running
  /\ tokens[i].type # "identifier"
  /\ ~(tokens[i].type = "keyword" /\ tokens[i].value \in HandledKeywords)
  /\ i' = i + 1
  /\ UNCHANGED << fsVars, srvVars, lexVars, tokens, lineCount, pc, blockStack, scopeStack, diagnostics,
                  foldingRanges, gotoList, modendFound, loopVar, links >>

MsgNotClosed(kw) == << "Block wird nicht geschlossen", kw, BLOCK_END_MAP(kw) >>

\* open blocks are pushed onto the list directly, not through addDiagnostic
RECURSIVE OpenBlocks(_, _, _)
OpenBlocks(diags, stack, k) ==
  IF k > Len(stack) THEN diags
  ELSE OpenBlocks(Append(diags, [severity |-> "warning",
                                 message  |-> MsgNotClosed(stack[k].keyword),
                                 token    |-> stack[k].token]),
                  stack, k + 1)

Finish ==
  /\ pc = "run"
  /\ i > Len(tokens)
  /\ diagnostics' = OpenBlocks(
        IF ~modendFound THEN markUnusedVariables(diagnostics, scopeStack)
        ELSE diagnostics,
        blockStack, 1)
  /\ pc' = "done"
  /\ UNCHANGED << fsVars, srvVars, lexVars, tokens, lineCount, i, blockStack, scopeStack, foldingRanges,
                  gotoList, modendFound, loopVar, links >>

(***************************************************************************)
(* tokenize() (server.js 1144-1848): characters and lexemes                *)
(***************************************************************************)
Letter == {"A", "B", "C", "D", "E", "F", "G", "H", "I", "J", "K", "L", "M", "N",
           "O", "P", "Q", "R", "S", "T", "U", "V", "W", "X", "Y", "Z",
           "a", "b", "c", "d", "e", "f", "g", "h", "i", "j", "k", "l", "m", "n",
           "o", "p", "q", "r", "s", "t", "u", "v", "w", "x", "y", "z"}
Digit == {"0", "1", "2", "3", "4", "5", "6", "7", "8", "9"}
Blank == {" ", "\t", "\f"}      \* and the vertical tab, which no text of the model holds
LineBreak == {"\n", "\r"}
NameStart == Letter \cup {"_"}
NameChar == Letter \cup Digit \cup {"_"}

\* the entries of the word tables that the model's texts use
PEARL_KEYWORDS == { << "E", "N", "D" >>, << "S", "Y", "S", "T", "E", "M" >>,
                    << "P", "R", "O", "B", "L", "E", "M" >> }
OPERATOR_KEYWORDS == { << "A", "N", "D" >> }
TYPE_KEYWORDS == { << "F", "I", "X", "E", "D" >> }

\* text[offset], "" behind the end of the text (undefined in the code)
At(text, offset) ==
  IF offset >= 0 /\ offset < Len(text) THEN text[offset + 1] ELSE ""

\* text.slice(startOffset, endOffset)
Slice(text, startOffset, endOffset) == SubSeq(text, startOffset + 1, endOffset)

HasPrefix(text, offset, word) ==
  /\ offset + Len(word) <= Len(text)
  /\ Slice(text, offset, offset + Len(word)) = word

\* the offset behind the longest run of characters of the class
SpanWhile(text, offset, class) ==
  IF offset >= Len(text) THEN offset
  ELSE CHOOSE k \in offset..Len(text) :
         /\ At(text, k) \notin class
         /\ \A m \in offset..(k - 1) : At(text, m) \in class

\* the offset behind the longest run of characters outside the class, within the line
SpanUntil(text, offset, class) ==
  IF offset >= Len(text) THEN offset
  ELSE CHOOSE k \in offset..Len(text) :
         /\ k = Len(text) \/ At(text, k) \in (class \cup LineBreak)
         /\ \A m \in offset..(k - 1) : At(text, m) \notin (class \cup LineBreak)

\* an activation of tokenize(uri, text, preprocess); kind and origin say what
\* the caller does with the result: "root", "include", or "macro" with the
\* position of the replaced name
Activation(kind, uri, text, preprocess, origin) ==
  [kind |-> kind, uri |-> uri, text |-> text, preprocess |-> preprocess,
   origin |-> origin, offset |-> 0, line |-> 0, column |-> 0,
   isLineStart |-> TRUE, toks |-> << >>]

NoOrigin == [name |-> << >>, line |-> 0, column |-> 0, offset |-> 0, length |-> 0]

\* a token as addToken builds it; define is undefined (here empty) until 1676
Token(f, type, startOffset, startLine, startColumn, endOffset) ==
  [type |-> type, value |-> Slice(f.text, startOffset, endOffset), uri |-> f.uri,
   line |-> startLine, column |-> startColumn, offset |-> startOffset,
   length |-> endOffset - startOffset, define |-> << >>]

\* addToken (1157-1178): nothing is added for an end before the start
addToken(f, type, startOffset, startLine, startColumn, endOffset) ==
  IF startOffset < 0 \/ startLine < 0 \/ startColumn < 0 \/ endOffset < startOffset
  THEN f
  ELSE [f EXCEPT !.toks = Append(@, Token(f, type, startOffset, startLine,
                                          startColumn, endOffset))]

\* advanceChar (1183-1224)
advanceChar(f) ==
  LET ch == At(f.text, f.offset) IN
  IF ch = "\n" THEN
    [f EXCEPT !.offset = @ + 1, !.line = @ + 1, !.column = 0, !.isLineStart = TRUE]
  ELSE IF ch = "\r" THEN
    [f EXCEPT !.offset = IF At(f.text, f.offset + 1) = "\n" THEN @ + 2 ELSE @ + 1,
              !.line = @ + 1, !.column = 0, !.isLineStart = TRUE]
  ELSE [f EXCEPT !.offset = @ + 1, !.column = @ + 1]

\* advanceChar() up to the end of the line: one column per character
ToLineEnd(f) ==
  LET e == SpanUntil(f.text, f.offset, LineBreak) IN
  [f EXCEPT !.offset = e, !.column = @ + (e - f.offset)]

\* skipRestOfLine (1226-1240): the activation behind the line break, and the
\* offset of the end of the line
skipRestOfLine(f) ==
  LET g == ToLineEnd(f) IN
  [frame  |-> IF g.offset < Len(g.text) THEN advanceChar(g) ELSE g,
   offset |-> g.offset]

\* the offset behind the end of a block comment (1275-1282): advanceChar()
\* until the text has its end or '*' and '/' at the offset
CommentEndOffset(text, offset) ==
  IF offset >= Len(text) THEN offset
  ELSE LET first == CHOOSE k \in offset..Len(text) :
                      /\ k = Len(text) \/ (At(text, k) = "*" /\ At(text, k + 1) = "/")
                      /\ \A m \in offset..(k - 1) :
                           ~(At(text, m) = "*" /\ At(text, m + 1) = "/")
       IN IF first = Len(text) THEN first ELSE first + 2

\* the activation behind a block comment: advanceChar() has counted a line for
\* every line break and the columns behind the last one
CommentEnd(f) ==
  LET e == CommentEndOffset(f.text, f.offset)
      breaks == {k \in f.offset..(e - 1) :
                   \/ At(f.text, k) = "\r"
                   \/ At(f.text, k) = "\n" /\ (k = f.offset \/ At(f.text, k - 1) # "\r")}
      ends == {k \in f.offset..(e - 1) : At(f.text, k) \in LineBreak}
      last == CHOOSE k \in ends : \A m \in ends : m <= k
  IN IF breaks = {}
     THEN [f EXCEPT !.offset = e, !.column = @ + (e - f.offset)]
     ELSE [f EXCEPT !.offset = e, !.line = @ + Cardinality(breaks),
                    !.column = e - (last + 1), !.isLineStart = TRUE]

\* the end of a string with its optional B / B1..B4 (1564-1598)
StringLexeme(text, offset) ==
  LET q == SpanUntil(text, offset + 1, {"'"})
      e == IF At(text, q) = "'" THEN q + 1 ELSE q
  IN IF At(text, e) = "B"
     THEN [type |-> "bitstring",
           end  |-> IF At(text, e + 1) \in {"1", "2", "3", "4"} THEN e + 2 ELSE e + 1]
     ELSE [type |-> "string", end |-> e]

\* the end of a number (1601-1653)
NumberEnd(text, offset) ==
  LET o1 == IF At(text, offset) = "." THEN offset + 1 ELSE offset
      o2 == SpanWhile(text, o1, Digit)
      o3 == IF At(text, o2) = "." THEN SpanWhile(text, o2 + 1, Digit) ELSE o2
      o4 == IF At(text, o3) \in {"E", "e"}
            THEN SpanWhile(text,
                           IF At(text, o3 + 1) \in {"+", "-"} THEN o3 + 2 ELSE o3 + 1,
                           Digit)
            ELSE o3
      o5 == IF At(text, o4) = "("
            THEN LET r == SpanWhile(text, o4 + 1, Digit) IN
                 IF At(text, r) = ")" THEN r + 1 ELSE r
            ELSE o4
  IN o5

\* the type of a word (1692-1698)
WordType(value) ==
  IF value \in PEARL_KEYWORDS THEN "keyword"
  ELSE IF value \in OPERATOR_KEYWORDS THEN "operator"
  ELSE IF value \in TYPE_KEYWORDS THEN "type"
  ELSE "identifier"

\* the lexeme of the last branch (1714-1841): an operator, a symbol, or one
\* illegal character as an 'error' token
SymbolLexeme(text, offset, sect) ==
  LET ch == At(text, offset)
      c1 == At(text, offset + 1)
      c2 == At(text, offset + 2)
      Lex(type, length) == [type |-> type, end |-> offset + length]
  IN IF sect = "system" /\ ch = "<" /\ c1 = "-" /\ c2 = ">" THEN Lex("operator", 3)
     ELSE IF sect = "system" /\ ch = "<" /\ c1 = "-" THEN Lex("operator", 2)
     ELSE IF sect = "system" /\ ch = "-" /\ c1 = ">" THEN Lex("operator", 2)
     ELSE IF ch = ":" THEN Lex("symbol", IF c1 = "=" THEN 2 ELSE 1)
     ELSE IF ch = "=" THEN Lex("operator", IF c1 = "=" THEN 2 ELSE 1)
     ELSE IF ch = "<" THEN Lex("operator", IF c1 \in {"=", ">"} THEN 2 ELSE 1)
     ELSE IF ch = ">" THEN Lex("operator", IF c1 \in {"=", "<"} THEN 2 ELSE 1)
     ELSE IF ch = "/" THEN Lex("operator", IF c1 \in {"/", "="} THEN 2 ELSE 1)
     ELSE IF ch = "*" THEN Lex("operator", IF c1 = "*" THEN 2 ELSE 1)
     ELSE IF ch \in {"+", "-"} THEN Lex("operator", 1)
     ELSE IF ch \in {"(", ")", "[", "]", ";", ",", "."} THEN Lex("symbol", 1)
     ELSE Lex("error", 1)

(***************************************************************************)
(* tokenize(): the preprocessor lines (1305-1546)                          *)
(***************************************************************************)
W_ifdef   == << "#", "i", "f", "d", "e", "f" >>
W_ifndef  == << "#", "i", "f", "n", "d", "e", "f" >>
W_else    == << "#", "e", "l", "s", "e" >>
W_endif   == << "#", "e", "n", "d", "i", "f" >>
W_include == << "#", "i", "n", "c", "l", "u", "d", "e" >>
W_define  == << "#", "d", "e", "f", "i", "n", "e" >>
W_undef   == << "#", "u", "n", "d", "e", "f" >>

\* word, blanks, name:  /^(word)\s+([A-Za-z_][A-Za-z0-9_]*)/
ParseNamed(text, offset, word) ==
  LET a == offset + Len(word)
      b == SpanWhile(text, a, Blank)
      c == SpanWhile(text, b, NameChar)
  IN [ok   |-> HasPrefix(text, offset, word) /\ b > a /\ At(text, b) \in NameStart,
      name |-> Slice(text, b, c),
      end  |-> c]

IfdefParse(text, offset) ==
  IF HasPrefix(text, offset, W_ifdef)
  THEN [cmd |-> "#ifdef", p |-> ParseNamed(text, offset, W_ifdef)]
  ELSE [cmd |-> "#ifndef", p |-> ParseNamed(text, offset, W_ifndef)]

\* #include "path"  or  #include path  (1429-1432)
IncludeParse(text, offset) ==
  LET a == offset + Len(W_include)
      b == SpanWhile(text, a, Blank)
      q == SpanUntil(text, b + 1, Blank \cup {"\""})
      c == SpanUntil(text, b, Blank)
      head == HasPrefix(text, offset, W_include) /\ b > a
  IN IF head /\ At(text, b) = "\"" /\ q > b + 1 /\ At(text, q) = "\""
     THEN [ok |-> TRUE, path |-> Slice(text, b + 1, q), end |-> q + 1]
     ELSE [ok |-> head /\ c > b, path |-> Slice(text, b, c), end |-> c]

\* #define NAME ["value"]  (1477)
DefineParse(text, offset) ==
  LET n == ParseNamed(text, offset, W_define)
      d == SpanWhile(text, n.end, Blank)
      e == SpanUntil(text, d + 1, {"\""})
      hasValue == d > n.end /\ At(text, d) = "\"" /\ e > d + 1 /\ At(text, e) = "\""
  IN [ok    |-> n.ok,
      name  |-> n.name,
      value |-> IF hasValue THEN Slice(text, d + 1, e) ELSE << >>,
      end   |-> IF hasValue THEN e + 1 ELSE n.end]

\* #word  (1518)
UnknownParse(text, offset) ==
  [ok  |-> At(text, offset + 1) \in Letter,
   end |-> SpanWhile(text, offset + 2, NameChar)]

HasDefine(name) == \E d \in defines : d.name = name
DefineValue(name) == (CHOOSE d \in defines : d.name = name).value

\* which preprocessor line stands at the offset; "none" when the line is no
\* directive and the '#' is left to the branches below
Directive(f) ==
  IF IfdefParse(f.text, f.offset).p.ok THEN "ifdef"
  ELSE IF HasPrefix(f.text, f.offset, W_else) THEN "else"
  ELSE IF HasPrefix(f.text, f.offset, W_endif) THEN "endif"
  ELSE IF Len(defineStack) = 0 \/ defineStack[Len(defineStack)] THEN
    IF IncludeParse(f.text, f.offset).ok THEN "include"
    ELSE IF DefineParse(f.text, f.offset).ok THEN "define"
    ELSE IF ParseNamed(f.text, f.offset, W_undef).ok THEN "undef"
    ELSE IF UnknownParse(f.text, f.offset).ok THEN "unknown"
    ELSE "none"
  ELSE "inactiveDirective"

\* the branch of the loop body taken at the offset (1242-1841)
Branch(f) ==
  LET ch == At(f.text, f.offset) IN
  IF ch \in Blank THEN "whitespace"
  ELSE IF ch \in LineBreak THEN "newline"
  ELSE IF ch = "!" THEN "lineComment"
  ELSE IF ch = "/" /\ At(f.text, f.offset + 1) = "*" THEN "blockComment"
  ELSE IF ch = "#" /\ f.preprocess /\ f.isLineStart /\ Directive(f) # "none"
  THEN Directive(f)
  ELSE IF ~defineStack[Len(defineStack)] THEN "inactive"
  ELSE IF ch = "'" THEN "string"
  ELSE IF ch \in Digit \/ (ch = "." /\ At(f.text, f.offset + 1) \in Digit) THEN "number"
  ELSE IF ch \in Letter THEN
    IF HasDefine(Slice(f.text, f.offset, SpanWhile(f.text, f.offset + 1, NameChar)))
    THEN "macro" ELSE "word"
  ELSE IF SymbolLexeme(f.text, f.offset, section).type = "error" THEN "illegal"
  ELSE "symbol"

\* the diagnostic is kept whatever file the token is of
addLexDiagnosticAnyUri(diags, severity, message, token) ==
  Append(diags, [severity |-> severity, message |-> message, token |-> token])

\* addDiagnostic (935-956) for a token of tokenize()
addLexDiagnostic(diags, severity, message, token) ==
  IF token.uri # DocUri THEN diags
  ELSE Append(diags, [severity |-> severity, message |-> message, token |-> token])

HintIf(diags, cond, token) ==
  IF cond THEN addLexDiagnostic(diags, "hint", MsgInactive, token) ELSE diags

\* the value alone, whatever the enclosing blocks
AllOfValue(stack, value) == value

\* defineStack.reduce((prev, current) => prev && current, value)
AllOf(stack, value) == value /\ \A k \in 1..Len(stack) : stack[k]

\* the token of the directive, and the activation behind the directive's line
\* with the directive's token and the 'inactive' token of the rest of the line
DirectiveToken(f, type, stmtEnd) == Token(f, type, f.offset, f.line, f.column, stmtEnd)

DirectiveLine(f, type, stmtEnd) ==
  LET sk == skipRestOfLine(addToken(f, type, f.offset, f.line, f.column, stmtEnd))
  IN addToken(sk.frame, "inactive", stmtEnd, f.line,
              f.column + (stmtEnd - f.offset), sk.offset)

\* the included files; any other path does not exist.  C holds a conditional
\* block, H includes a file that does not exist, S includes itself, M and N
\* include each other
Files ==
  { [path |-> << "F" >>, uri |-> IncUri,
     text |-> << "X", "\n", "#", "f", "o", "o" >>],
    [path |-> << "C" >>, uri |-> "inc:C",
     text |-> << "#", "i", "f", "d", "e", "f", " ", "A", "\n", "E", "N", "D", "\n", "#",
              "e", "l", "s", "e", "\n", "X", "\n", "#", "e", "n", "d", "i", "f" >>],
    [path |-> << "H" >>, uri |-> "inc:H",
     text |-> << "#", "i", "n", "c", "l", "u", "d", "e", " ", "G", "\n", "X" >>],
    [path |-> << "S" >>, uri |-> "inc:S",
     text |-> << "#", "i", "n", "c", "l", "u", "d", "e", " ", "S", "\n", "X" >>],
    [path |-> << "M" >>, uri |-> "inc:M",
     text |-> << "#", "i", "n", "c", "l", "u", "d", "e", " ", "N", "\n", "X" >>],
    [path |-> << "N" >>, uri |-> "inc:N",
     text |-> << "#", "i", "n", "c", "l", "u", "d", "e", " ", "M" >>] }

\* loadFileTextCached (359-388): the text of the file, or an error
loadFileTextCached(absPath) ==
  IF \E file \in Files : file.path = absPath
  THEN LET file == CHOOSE file \in Files : file.path = absPath IN
       [error |-> FALSE, uri |-> file.uri, text |-> file.text]
  ELSE [error |-> TRUE, uri |-> "", text |-> << >>]

\* macros are replaced in the path (1445-1452); a path of the model is one name
FinalIncludePath(includePath) ==
  IF HasDefine(includePath)
  THEN LET value == DefineValue(includePath) IN
       IF Len(value) >= 2 /\ value[1] = "'" /\ value[Len(value)] = "'"
       THEN SubSeq(value, 2, Len(value) - 1) ELSE value
  ELSE includePath

IncludeDepthCap == 100

\* no further file is opened
CapReachedNever(stack) == FALSE

\* includeStack.length < 100 fails (1456)
CapReached(stack) == Len(stack) >= IncludeDepthCap

(***************************************************************************)
(* tokenize(): one action per branch of the loop body.  The last entry of  *)
(* callStack is the running activation; an #include and a macro push one.  *)
(***************************************************************************)
LexRunning ==
  /\ lexPc = "run"
  /\ callStack # << >>
  /\ Top(callStack).offset < Len(Top(callStack).text)

LexAt(branch) == LexRunning /\ Branch(Top(callStack)) = branch

SetTop(g) == [callStack EXCEPT ![Len(callStack)] = g]

\* the step changes the running activation only
OnlyFrame(g) ==
  /\ callStack' = SetTop(g)
  /\ UNCHANGED << defineStack, preprocStack, defines, includeStack, section,
                  lexDiagnostics, lexFoldingRanges, lexTokens, lexPc, passVars, srvVars, fsVars >>

MsgDefined(name) == << "Makro bereits definiert", name >>
MsgUndefined(name) == << "Makro nicht definiert", name >>
MsgUnknown(stmt) == << "Unbekannter Praeprozessorbefehl", stmt >>
MsgInclude(path) == << "#include: Fehler", path >>

\* 1246-1255
LexWhitespace == LexAt("whitespace") /\ OnlyFrame(advanceChar(Top(callStack)))

LexNewline == LexAt("newline") /\ OnlyFrame(advanceChar(Top(callStack)))

\* 1258-1266
LexLineComment ==
  /\ LexAt("lineComment")
  /\ \E f \in {Top(callStack)} :
     \E sk \in {skipRestOfLine(f)} :
        OnlyFrame(addToken(sk.frame, "comment", f.offset, f.line, f.column, sk.offset))

\* 1269-1302
LexBlockComment ==
  /\ LexAt("blockComment")
  /\ \E f \in {Top(callStack)} :
     \E g \in {CommentEnd([f EXCEPT !.offset = @ + 2, !.column = @ + 2])} :
        /\ callStack' = SetTop(addToken(g, "comment", f.offset, f.line, f.column, g.offset))
        /\ lexFoldingRanges' =
             IF f.line # g.line
             THEN Append(lexFoldingRanges,
                         [kind |-> "comment", startLine |-> f.line, endLine |-> g.line])
             ELSE lexFoldingRanges
  /\ UNCHANGED << defineStack, preprocStack, defines, includeStack, section,
                  lexDiagnostics, lexTokens, lexPc, passVars, srvVars, fsVars >>

\* 1321-1346
LexIfdef ==
  /\ LexAt("ifdef")
  /\ \E f \in {Top(callStack)} :
     \E d \in {IfdefParse(f.text, f.offset)} :
     \E token \in {DirectiveToken(f, "preproc", d.p.end)} :
     \E value \in {HasDefine(d.p.name)} :
     \E process \in {IF d.cmd = "#ifdef" THEN value ELSE ~value} :
     \E stackProcess \in {AllOf(defineStack, process)} :
        /\ lexDiagnostics' =
             HintIf(lexDiagnostics, Len(defineStack) > 0 /\ ~Top(defineStack), token)
        /\ defineStack' = Append(defineStack, stackProcess)
        /\ preprocStack' = Append(preprocStack, token)
        /\ callStack' = SetTop(DirectiveLine(f, "preproc", d.p.end))
  /\ UNCHANGED << defines, includeStack, section, lexFoldingRanges, lexTokens, lexPc,
                  passVars, srvVars, fsVars >>

\* the fold from the token on preprocStack to the line before the directive:
\* lineOffsets[line - 1] is undefined on the first line of the text, and
\* reading its endOfLineColumn throws
FoldThrows(f) == Len(preprocStack) > 0 /\ f.line - 1 < 0

PreprocFold(f) ==
  IF Len(preprocStack) > 0
  THEN Append(lexFoldingRanges,
              [kind |-> "preproz", startLine |-> Top(preprocStack).line,
               endLine |-> f.line - 1])
  ELSE lexFoldingRanges

\* 1348-1388
LexElse ==
  /\ LexAt("else")
  /\ \E f \in {Top(callStack)} :
     \E stmtEnd \in {f.offset + Len(W_else)} :
     \E token \in {DirectiveToken(f, "preproc", stmtEnd)} :
     \E elseValue \in {~Top(defineStack)} :
     \E stackProcess \in {AllOf(Pop(defineStack), elseValue)} :
        /\ defineStack' = Append(Pop(defineStack), stackProcess)
        /\ lexDiagnostics' = HintIf(lexDiagnostics, ~stackProcess, token)
        /\ IF FoldThrows(f)
           THEN /\ preprocStack' = Pop(preprocStack)
                /\ callStack' = SetTop(addToken(f, "preproc", f.offset, f.line,
                                                f.column, stmtEnd))
                /\ lexPc' = "crashed"
                /\ UNCHANGED lexFoldingRanges
           ELSE /\ preprocStack' =
                     Append(IF Len(preprocStack) > 0 THEN Pop(preprocStack)
                            ELSE preprocStack, token)
                /\ lexFoldingRanges' = PreprocFold(f)
                /\ callStack' = SetTop(DirectiveLine(f, "preproc", stmtEnd))
                /\ UNCHANGED lexPc
  /\ UNCHANGED << defines, includeStack, section, lexTokens, passVars, srvVars, fsVars >>

\* 1390-1426
LexEndif ==
  /\ LexAt("endif")
  /\ \E f \in {Top(callStack)} :
     \E stmtEnd \in {f.offset + Len(W_endif)} :
     \E token \in {DirectiveToken(f, "preproc", stmtEnd)} :
     \E ds \in {IF Len(defineStack) > 1 THEN Pop(defineStack) ELSE defineStack} :
        /\ defineStack' = ds
        /\ IF FoldThrows(f)
           THEN /\ preprocStack' = Pop(preprocStack)
                /\ callStack' = SetTop(addToken(f, "preproc", f.offset, f.line,
                                                f.column, stmtEnd))
                /\ lexPc' = "crashed"
                /\ UNCHANGED << lexFoldingRanges, lexDiagnostics >>
           ELSE /\ preprocStack' = IF Len(preprocStack) > 0 THEN Pop(preprocStack)
                                   ELSE preprocStack
                /\ lexFoldingRanges' = PreprocFold(f)
                /\ lexDiagnostics' =
                     HintIf(lexDiagnostics, Len(ds) > 0 /\ ~Top(ds), token)
                /\ callStack' = SetTop(DirectiveLine(f, "preproc", stmtEnd))
                /\ UNCHANGED lexPc
  /\ UNCHANGED << defines, includeStack, section, lexTokens, passVars, srvVars, fsVars >>

\* 1429-1475
LexInclude ==
  /\ LexAt("include")
  /\ \E f \in {Top(callStack)} :
     \E d \in {IncludeParse(f.text, f.offset)} :
     \E token \in {DirectiveToken(f, "preproc", d.end)} :
     \E g \in {DirectiveLine(f, "preproc", d.end)} :
     \E absPath \in {FinalIncludePath(d.path)} :
     \E incText \in {loadFileTextCached(absPath)} :
        IF CapReached(includeStack)
        THEN /\ callStack' = SetTop(g)
             /\ UNCHANGED << includeStack, lexDiagnostics >>
        ELSE IF incText.error
        THEN /\ callStack' = SetTop(g)
             /\ lexDiagnostics' =
                  addLexDiagnostic(lexDiagnostics, "error", MsgInclude(absPath), token)
             /\ UNCHANGED includeStack
        ELSE /\ callStack' = Append(SetTop(g),
                                    Activation("include", incText.uri, incText.text,
                                               TRUE, NoOrigin))
             /\ includeStack' = Append(includeStack, absPath)
             /\ UNCHANGED lexDiagnostics
  /\ UNCHANGED << defineStack, preprocStack, defines, section, lexFoldingRanges,
                  lexTokens, lexPc, passVars, srvVars, fsVars >>

\* 1477-1497
LexDefine ==
  /\ LexAt("define")
  /\ \E f \in {Top(callStack)} :
     \E d \in {DefineParse(f.text, f.offset)} :
     \E token \in {DirectiveToken(f, "preproc", d.end)} :
        /\ IF HasDefine(d.name)
           THEN /\ lexDiagnostics' =
                     addLexDiagnostic(lexDiagnostics, "error", MsgDefined(d.name), token)
                /\ UNCHANGED defines
           ELSE /\ defines' = defines \cup {[name |-> d.name, value |-> d.value]}
                /\ UNCHANGED lexDiagnostics
        /\ callStack' = SetTop(DirectiveLine(f, "preproc", d.end))
  /\ UNCHANGED << defineStack, preprocStack, includeStack, section, lexFoldingRanges,
                  lexTokens, lexPc, passVars, srvVars, fsVars >>

\* 1499-1516
LexUndef ==
  /\ LexAt("undef")
  /\ \E f \in {Top(callStack)} :
     \E d \in {ParseNamed(f.text, f.offset, W_undef)} :
     \E token \in {DirectiveToken(f, "preproc", d.end)} :
        /\ lexDiagnostics' =
             IF ~HasDefine(d.name)
             THEN addLexDiagnostic(lexDiagnostics, "warning", MsgUndefined(d.name), token)
             ELSE lexDiagnostics
        /\ defines' = {x \in defines : x.name # d.name}
        /\ callStack' = SetTop(DirectiveLine(f, "preproc", d.end))
  /\ UNCHANGED << defineStack, preprocStack, includeStack, section, lexFoldingRanges,
                  lexTokens, lexPc, passVars, srvVars, fsVars >>

\* 1518-1531
LexUnknown ==
  /\ LexAt("unknown")
  /\ \E f \in {Top(callStack)} :
     \E d \in {UnknownParse(f.text, f.offset)} :
     \E token \in {DirectiveToken(f, "error", d.end)} :
        /\ lexDiagnostics' =
             addLexDiagnostic(lexDiagnostics, "error", MsgUnknown(token.value), token)
        /\ callStack' = SetTop(DirectiveLine(f, "error", d.end))
  /\ UNCHANGED << defineStack, preprocStack, defines, includeStack, section,
                  lexFoldingRanges, lexTokens, lexPc, passVars, srvVars, fsVars >>

\* 1533-1545: another directive inside an inactive block; the line's token twice
LexInactiveDirective ==
  /\ LexAt("inactiveDirective")
  /\ \E f \in {Top(callStack)} :
     \E sk \in {skipRestOfLine(f)} :
     \E token \in {Token(f, "inactive", f.offset, f.line, 0, sk.offset)} :
        /\ callStack' = SetTop(addToken(addToken(sk.frame, "inactive", f.offset, f.line,
                                                 0, sk.offset),
                                        "inactive", f.offset, f.line, 0, sk.offset))
        /\ lexDiagnostics' = addLexDiagnostic(lexDiagnostics, "hint", MsgInactive, token)
  /\ UNCHANGED << defineStack, preprocStack, defines, includeStack, section,
                  lexFoldingRanges, lexTokens, lexPc, passVars, srvVars, fsVars >>

\* 1548-1561: a line of an inactive block
LexInactive ==
  /\ LexAt("inactive")
  /\ \E f \in {Top(callStack)} :
     \E sk \in {skipRestOfLine([f EXCEPT !.isLineStart = FALSE])} :
     \E token \in {Token(f, "inactive", f.offset, f.line, 0, sk.offset)} :
        /\ callStack' = SetTop(addToken(sk.frame, "inactive", f.offset, f.line, 0,
                                        sk.offset))
        /\ lexDiagnostics' = addLexDiagnostic(lexDiagnostics, "hint", MsgInactive, token)
  /\ UNCHANGED << defineStack, preprocStack, defines, includeStack, section,
                  lexFoldingRanges, lexTokens, lexPc, passVars, srvVars, fsVars >>

\* the activation behind a lexeme of one line that ends at endOffset
AfterLexeme(f, type, endOffset) ==
  addToken([f EXCEPT !.offset = endOffset, !.column = @ + (endOffset - f.offset),
                     !.isLineStart = FALSE],
           type, f.offset, f.line, f.column, endOffset)

\* 1564-1598
LexString ==
  /\ LexAt("string")
  /\ \E f \in {Top(callStack)} :
     \E lx \in {StringLexeme(f.text, f.offset)} :
        OnlyFrame(AfterLexeme(f, lx.type, lx.end))

\* 1601-1653
LexNumber ==
  /\ LexAt("number")
  /\ \E f \in {Top(callStack)} :
        OnlyFrame(AfterLexeme(f, "number", NumberEnd(f.text, f.offset)))

\* 1656-1666, 1692-1711
LexWord ==
  /\ LexAt("word")
  /\ \E f \in {Top(callStack)} :
     \E e \in {SpanWhile(f.text, f.offset + 1, NameChar)} :
     \E value \in {Slice(f.text, f.offset, e)} :
     \E type \in {WordType(value)} :
        /\ callStack' = SetTop(AfterLexeme(f, type, e))
        /\ section' =
             IF type = "keyword" /\ value = << "S", "Y", "S", "T", "E", "M" >>
                /\ section = "problem" THEN "system"
             ELSE IF type = "keyword" /\ value = << "P", "R", "O", "B", "L", "E", "M" >>
                     /\ section = "system" THEN "problem"
             ELSE section
  /\ UNCHANGED << defineStack, preprocStack, defines, includeStack, lexDiagnostics,
                  lexFoldingRanges, lexTokens, lexPc, passVars, srvVars, fsVars >>

\* the macros whose replacement text is being tokenized
ActiveMacros ==
  {callStack[k].origin.name : k \in {j \in 1..Len(callStack) : callStack[j].kind = "macro"}}

\* tokens[tokens.length - 1].define = defineValue (1676)
WithDefine(f, defineValue) ==
  [f EXCEPT !.toks[Len(f.toks)].define = defineValue]

\* 1668-1690: the name is a macro; its replacement text is tokenized by a nested
\* call.  No nested call changes the macros, so a name that is met in its own
\* replacement recurses until the call stack overflows.
LexMacro ==
  /\ LexAt("macro")
  /\ \E f \in {Top(callStack)} :
     \E e \in {SpanWhile(f.text, f.offset + 1, NameChar)} :
     \E name \in {Slice(f.text, f.offset, e)} :
     \E g \in {WithDefine(AfterLexeme(f, "preproc", e), DefineValue(name))} :
        IF name \in ActiveMacros
        THEN /\ callStack' = SetTop(g)
             /\ lexPc' = "crashed"
        ELSE /\ callStack' =
                  Append(SetTop(g),
                         Activation("macro", f.uri, DefineValue(name), FALSE,
                                    [name |-> name, line |-> f.line, column |-> f.column,
                                     offset |-> f.offset, length |-> e - f.offset]))
             /\ UNCHANGED lexPc
  /\ UNCHANGED << defineStack, preprocStack, defines, includeStack, section,
                  lexDiagnostics, lexFoldingRanges, lexTokens, passVars, srvVars, fsVars >>

\* 1714-1835
LexSymbol ==
  /\ LexAt("symbol")
  /\ \E f \in {Top(callStack)} :
     \E lx \in {SymbolLexeme(f.text, f.offset, section)} :
        OnlyFrame(AfterLexeme(f, lx.type, lx.end))

\* 1836-1840
LexIllegal ==
  /\ LexAt("illegal")
  /\ \E f \in {Top(callStack)} :
        OnlyFrame(AfterLexeme(f, "error", f.offset + 1))

\* the tokens of a nested call as they are, at their positions in its text
ReturnedAsIs(child) == child.toks

\* the tokens of a nested call as the caller inserts them: those of a macro
\* take the position of the replaced name (1680-1685)
Returned(child) ==
  IF child.kind = "macro"
  THEN [k \in 1..Len(child.toks) |->
          [child.toks[k] EXCEPT !.line = child.origin.line,
                                !.offset = child.origin.offset,
                                !.column = child.origin.column,
                                !.length = child.origin.length]]
  ELSE child.toks

\* 1844-1847 of a nested call, with 1467-1470 or 1678-1688 of its caller
LexReturn ==
  /\ lexPc = "run"
  /\ Len(callStack) > 1
  /\ Top(callStack).offset >= Len(Top(callStack).text)
  /\ \E child \in {Top(callStack)} :
     \E parent \in {callStack[Len(callStack) - 1]} :
        /\ callStack' = Append(SubSeq(callStack, 1, Len(callStack) - 2),
                               [parent EXCEPT !.toks = @ \o Returned(child)])
        /\ includeStack' = IF child.kind = "include" THEN Pop(includeStack)
                           ELSE includeStack
  /\ UNCHANGED << defineStack, preprocStack, defines, section, lexDiagnostics,
                  lexFoldingRanges, lexTokens, lexPc, passVars, srvVars, fsVars >>

\* 1844-1851 of the outermost call
LexDone ==
  /\ lexPc = "run"
  /\ Len(callStack) = 1
  /\ Top(callStack).offset >= Len(Top(callStack).text)
  /\ lexTokens' = Top(callStack).toks
  /\ lexPc' = "done"
  /\ UNCHANGED << callStack, defineStack, preprocStack, defines, includeStack, section,
                  lexDiagnostics, lexFoldingRanges, passVars, srvVars, fsVars >>

(***************************************************************************)
(* Programs: token arrays as tokenize() returns them.  A program is a      *)
(* sequence of statements; either the whole text stands on line 0 or       *)
(* statement k stands on line k - 1.                                       *)
(***************************************************************************)
\* layouts of a program of statements:
\*   "lines"   statement k stands on line k - 1 of the document
\*   "oneLine" the whole text stands on line 0
\*   "include" statement 1 stands on line 0 of the document, whose line 1 is an
\*             #include; the other statements are the included file, one per line
Layouts == {"lines", "oneLine", "include"}

LineOf(k, layout) ==
  CASE layout = "lines"   -> k - 1
    [] layout = "oneLine" -> 0
    [] layout = "include" -> IF k = 1 THEN 0 ELSE k - 2

UriOf(k, layout) == IF layout = "include" /\ k > 1 THEN IncUri ELSE DocUri

RECURSIVE LayFrom(_, _, _)
LayFrom(stmts, k, layout) ==
  IF k > Len(stmts) THEN << >>
  ELSE [j \in 1..Len(stmts[k]) |->
          [type  |-> stmts[k][j].type,
           value |-> stmts[k][j].value,
           line  |-> LineOf(k, layout),
           uri   |-> UriOf(k, layout)]]
       \o LayFrom(stmts, k + 1, layout)

Program(stmts, layout) ==
  [toks  |-> LayFrom(stmts, 1, layout),
   lines |-> CASE layout = "lines"   -> IF Len(stmts) = 0 THEN 1 ELSE Len(stmts)
               [] layout = "oneLine" -> 1
               [] layout = "include" -> 2]

\* --- statements
sModule   == << KW("MODULE"), ID("M"), SYM(";") >>
sModend   == << KW("MODEND"), SYM(";") >>
sProcP    == << ID("P"), SYM(":"), KW("PROC"), SYM(";") >>
sProcQ    == << ID("Q"), SYM(":"), KW("PROC"), SYM(";") >>
sTaskT    == << ID("T"), SYM(":"), KW("TASK"), SYM(";") >>
sBegin    == << KW("BEGIN") >>
sRepeat   == << KW("REPEAT") >>
sForTo    == << KW("FOR"), ID("I"), KW("TO"), NUM, KW("REPEAT") >>
sForBare  == << KW("FOR"), ID("I"), KW("REPEAT") >>
sIf       == << KW("IF"), ID("I"), KW("THEN") >>
sCase     == << KW("CASE"), NUM >>
sElse     == << KW("ELSE") >>
sEnd      == << KW("END"), SYM(";") >>
sFin      == << KW("FIN"), SYM(";") >>
sDclX     == << KW("DCL"), ID("X"), TYP("FIXED"), SYM(";") >>
sDclSema  == << KW("DCL"), ID("X"), TYP("SEMA"), SYM(";") >>
sDclBolt  == << KW("DCL"), ID("X"), TYP("BOLT"), SYM(";") >>
sDclGroup == << KW("DCL"), SYM("("), ID("X"), SYM(","), ID("Y"), SYM(")"),
                TYP("FIXED"), KW("GLOBAL"), SYM(";") >>
sSpcTask  == << KW("SPC"), ID("T"), KW("TASK"), SYM(";") >>
sProcPar  == << ID("P"), SYM(":"), KW("PROC"), SYM("("), ID("X"), TYP("FIXED"),
                SYM(")"), KW("RETURNS"), SYM("("), TYP("FIXED"), SYM(")"),
                KW("GLOBAL"), SYM(";") >>
sAssignX  == << ID("X"), SYM(":="), NUM, SYM(";") >>
sUseX     == << ID("X"), SYM(";") >>
sIndexX   == << ID("X"), SYM("("), NUM, SYM(")"), SYM(";") >>
sLabel    == << ID("L"), SYM(":") >>
sGoto     == << KW("GOTO"), ID("L"), SYM(";") >>
sCallP    == << KW("CALL"), ID("P"), SYM(";") >>
sCallNow  == << KW("CALL"), ID("NOW"), SYM(";") >>
sActivate == << KW("ACTIVATE"), ID("T"), SYM(";") >>
sResume   == << KW("RESUME"), SYM(";") >>
sRequestX == << KW("REQUEST"), ID("X"), SYM(";") >>
sEnterX   == << KW("ENTER"), ID("X"), SYM(";") >>
sSemaset  == << KW("SEMASET"), NUM, SYM(","), ID("X"), SYM(";") >>
sSystem   == << KW("SYSTEM"), SYM(";") >>
\* statements cut off behind the keyword or behind the name
sGotoCut     == << KW("GOTO") >>
sCallCut     == << KW("CALL") >>
sActivateCut == << KW("ACTIVATE"), ID("T") >>
sPreventCut  == << KW("PREVENT") >>
sRequestCut  == << KW("REQUEST") >>
sRequestXCut == << KW("REQUEST"), ID("X") >>
sEnterCut    == << KW("ENTER") >>
sSemasetCut  == << KW("SEMASET"), NUM >>
sReturnsCut  == << ID("P"), SYM(":"), KW("PROC"), SYM("("), SYM(")"), KW("RETURNS") >>

BlockStmts == { sModule, sModend, sProcP, sBegin, sRepeat, sForTo, sIf, sCase,
                sElse, sEnd, sFin }

SymbolStmts == { sDclX, sDclSema, sBegin, sEnd, sUseX, sIndexX, sRequestX }

AllStmts ==
  BlockStmts \cup SymbolStmts \cup
  { sTaskT, sForBare, sDclBolt, sDclGroup, sSpcTask, sProcPar, sLabel, sGoto,
    sCallP, sCallNow, sActivate, sResume, sEnterX, sSemaset, sSystem,
    sGotoCut, sCallCut, sActivateCut, sPreventCut, sRequestCut, sRequestXCut,
    sEnterCut, sSemasetCut, sReturnsCut }

\* TASK-control statements: each keyword, with and without a task name, with
\* no clause, a PRIO / PRIORITY clause or another keyword, with and without ';'
sDclT == << KW("DCL"), ID("T"), TYP("FIXED"), SYM(";") >>
TaskCtrlNames == { << >>, << ID("T") >> }
TaskCtrlClauses == { << >>, << KW("PRIO"), NUM >>, << KW("PRIORITY"), NUM >>,
                     << KW("TO"), NUM >> }
TaskCtrlEnds == { << >>, << SYM(";") >> }
TaskCtrlStmts ==
  { << KW(kw) >> \o n \o c \o e :
      kw \in DOMAIN TASK_CTRL_KEYWORDS, n \in TaskCtrlNames, c \in TaskCtrlClauses,
      e \in TaskCtrlEnds }
\* what stands before the statement: nothing, a TASK T or a variable T
TaskCtrlPrefixes == { << >>, << sSpcTask >>, << sDclT >> }

\* statements of a PROC body with GOTOs and labels
BodyStmts == { sProcQ, sGoto, sLabel, sBegin, sEnd, sForBare }

\* --- bounds
MaxBodyStmts   == 4
MaxBlockStmts  == 3
MaxSymbolStmts == 4
MaxStmts       == 2
MaxDepth       == 3

\* --- nested blocks, each closed by its required closer
Wrap(open, inner, close) == << open >> \o inner \o << close >>

RECURSIVE Nested(_, _, _)
Nested(depth, atTop, inModule) ==
  IF depth = 0 THEN { << >> }
  ELSE
    { << >> }
    \cup (IF atTop
          THEN { Wrap(sModule, b, sModend) : b \in Nested(depth - 1, FALSE, TRUE) }
          ELSE {})
    \cup (IF inModule
          THEN { Wrap(h, b, sEnd) : h \in {sProcP, sTaskT},
                                    b \in Nested(depth - 1, FALSE, FALSE) }
          ELSE {})
    \cup { Wrap(o[1], b, o[2]) :
             o \in { << sBegin, sEnd >>, << sRepeat, sEnd >>, << sForTo, sEnd >>,
                     << sForBare, sEnd >>, << sIf, sFin >>, << sCase, sFin >> },
             b \in Nested(depth - 1, FALSE, FALSE) }
    \cup { << sIf >> \o b \o << sElse, sFin >> : b \in Nested(depth - 1, FALSE, FALSE) }
    \cup { << sIf, sElse >> \o b \o << sFin >> : b \in Nested(depth - 1, FALSE, FALSE) }

\* the two scenario programs
\*   MODULE M; PROC P: PROC; DCL X FIXED; X:=1; END; MODEND;
\*   TASK T: TASK; END; PROC Q: PROC; ACTIVATE T; END;
ScenarioModule == << sModule, << KW("PROC") >> \o sProcP, sDclX, sAssignX, sEnd,
                     sModend >>
ScenarioTask   == << << KW("TASK") >> \o sTaskT, sEnd, << KW("PROC") >> \o sProcQ,
                     sActivate, sEnd >>
\* a file with two MODULE ... MODEND sections
ScenarioTwoModules == << sModule, sDclX, sModend, sModule, sModend >>
ScenarioLayouts == {"lines", "oneLine"}

(***************************************************************************)
(* Specification of the pass                                               *)
(***************************************************************************)
\* defaultSettings (236)
defaultSettings == 0

\* documentTokenCache.get(uri) is undefined
NoEntry ==
  [tokens |-> << >>, diagnostics |-> << >>, scopeStack |-> << >>,
   foldingRanges |-> << >>]

\* no hover request was made
NoHover == [line |-> 0, character |-> 0, link |-> 0, kind |-> "none", token |-> 0]

\* the paths of the files loaded, and what a file can hold
Paths == {"F", "G"}
FileTexts == {"a", "b"}
MaxMtime == 2

\* includeFileCache.get(absPath) is undefined
NoCacheEntry == [mtimeMs |-> -1, text |-> ""]

\* no file of that path
NoFile == [exists |-> FALSE, readable |-> FALSE, mtimeMs |-> 0, text |-> ""]

\* loadFileTextCached was not called
NoLoad == [path |-> "", text |-> "", error |-> FALSE]

\* no file exists and no file was loaded
FsIdle ==
  /\ fileSystem = [p \in Paths |-> NoFile]
  /\ includeFileCache = [p \in Paths |-> NoCacheEntry]
  /\ loadResult = NoLoad

\* the server before its first event
SrvIdle ==
  /\ hasConfigurationCapability = FALSE
  /\ globalSettings = defaultSettings
  /\ clientSettings = defaultSettings
  /\ documentSettings = 0
  /\ promises = << >>
  /\ awaiting = << >>
  /\ docOpen = FALSE
  /\ docText = << >>
  /\ documentTokenCache = NoEntry
  /\ publishedDiagnostics = << >>
  /\ observed = NoEntry
  /\ events = 0
  /\ hoverResponse = NoHover

\* tokenize() is not running
LexIdle ==
  /\ callStack = << >>
  /\ defineStack = << TRUE >>
  /\ preprocStack = << >>
  /\ defines = {}
  /\ includeStack = << >>
  /\ section = "problem"
  /\ lexDiagnostics = << >>
  /\ lexFoldingRanges = << >>
  /\ lexTokens = << >>
  /\ lexPc = "idle"

InitPass(p) ==
  /\ tokens = p.toks
  /\ lineCount = p.lines
  /\ links = [k \in 1..Len(p.toks) |-> 0]
  /\ i = 1
  /\ pc = "run"
  /\ blockStack = << >>
  /\ scopeStack = << << >> >>
  /\ diagnostics = << >>
  /\ foldingRanges = << >>
  /\ gotoList = << >>
  /\ modendFound = FALSE
  /\ loopVar = 0
  /\ LexIdle
  /\ SrvIdle
  /\ FsIdle

\* the programs analysed: the scenarios, every sequence of block statements,
\* of symbol statements and of all statements up to its bound, every PROC body
\* of up to MaxBodyStmts statements, every TASK-control statement behind each
\* prefix, and every nesting of blocks up to MaxDepth
Init ==
  \/ \E s \in {ScenarioModule, ScenarioTask, ScenarioTwoModules}, l \in ScenarioLayouts :
       InitPass(Program(s, l))
  \/ \E k \in 0..MaxBlockStmts : \E s \in [1..k -> BlockStmts], l \in Layouts :
       InitPass(Program(s, l))
  \/ \E k \in 0..MaxSymbolStmts : \E s \in [1..k -> SymbolStmts] :
       InitPass(Program(s, "lines"))
  \/ \E k \in 0..MaxStmts : \E s \in [1..k -> AllStmts], l \in {"lines", "include"} :
       InitPass(Program(s, l))
  \/ \E k \in 0..MaxBodyStmts : \E s \in [1..k -> BodyStmts], l \in {"lines", "include"} :
       InitPass(Program(<< sProcP >> \o s, l))
  \/ \E p \in TaskCtrlPrefixes, s \in TaskCtrlStmts, l \in {"lines", "include"} :
       InitPass(Program(p \o << s >>, l))
  \/ \E s \in Nested(MaxDepth, TRUE, FALSE) \cup Nested(MaxDepth, FALSE, TRUE),
        l \in {"lines", "oneLine"} :
       InitPass(Program(s, l))

Next ==
  \/ OnSkip
  \/ OnIdentifier
  \/ OnEND
  \/ OnELSE
  \/ OnFIN
  \/ OnMODEND
  \/ OnDCL
  \/ OnSPC
  \/ OnMODULE
  \/ OnIfCase
  \/ OnSystemProblem
  \/ OnProcTask
  \/ OnFOR
  \/ OnREPEAT
  \/ OnBEGIN
  \/ OnCALL
  \/ OnGOTO
  \/ OnTaskCtrl
  \/ OnSEMASET
  \/ OnSemaOp
  \/ OnBoltOp
  \/ Finish

Spec == Init /\ [][Next]_vars

(***************************************************************************)
(* Specification of tokenize(): the texts are the sequences of up to       *)
(* MaxTextLines of the lines below, each line a tuple of its characters    *)
(***************************************************************************)
lnElse       == << "#", "e", "l", "s", "e" >>
lnEndif      == << "#", "e", "n", "d", "i", "f" >>
lnIfdef      == << "#", "i", "f", "d", "e", "f", " ", "A" >>
lnIfndef     == << "#", "i", "f", "n", "d", "e", "f", " ", "A" >>
lnDefine     == << "#", "d", "e", "f", "i", "n", "e", " ", "A", " ", "\"", "1", "\"" >>
lnDefineSelf == << "#", "d", "e", "f", "i", "n", "e", " ", "A", " ", "\"", "A", "\"" >>
lnDefineF    == << "#", "d", "e", "f", "i", "n", "e", " ", "P", " ", "\"", "'", "F", "'", "\"" >>
lnUndef      == << "#", "u", "n", "d", "e", "f", " ", "A" >>
lnInclude    == << "#", "i", "n", "c", "l", "u", "d", "e", " ", "F" >>
lnIncludeP   == << "#", "i", "n", "c", "l", "u", "d", "e", " ", "P" >>
lnIncludeG   == << "#", "i", "n", "c", "l", "u", "d", "e", " ", "\"", "G", "\"" >>
lnUnknown    == << "#", "f", "o", "o" >>
lnUse        == << "A", ";" >>
lnEnd        == << "E", "N", "D" >>
lnIllegal    == << "$", " ", "#" >>
lnComment    == << "!", "c" >>
lnOpen       == << "/", "*" >>
lnClose      == << "*", "/", " ", "1", ".", "5" >>
lnString     == << "'", "s", "'", "B", "1" >>
lnSystem     == << "S", "Y", "S", "T", "E", "M", " ", "<", "-" >>
lnBlank      == << " " >>

lnIncludeC   == << "#", "i", "n", "c", "l", "u", "d", "e", " ", "C" >>
lnIncludeH   == << "#", "i", "n", "c", "l", "u", "d", "e", " ", "H" >>
lnIncludeS   == << "#", "i", "n", "c", "l", "u", "d", "e", " ", "S" >>
lnIncludeM   == << "#", "i", "n", "c", "l", "u", "d", "e", " ", "M" >>
lnDefineB    == << "#", "d", "e", "f", "i", "n", "e", " ", "B", " ", "\"", "A", " ", "2", "\"" >>
lnDefineC    == << "#", "d", "e", "f", "i", "n", "e", " ", "C", " ", "\"", "B", "+", "B", "\"" >>
lnUseB       == << " ", "B", ";" >>
lnUseC       == << "X", " ", "C" >>
lnOpenString == << "'", "s" >>

TextLines == {lnElse, lnEndif, lnIfdef, lnIfndef, lnDefine, lnDefineSelf, lnDefineF,
             lnUndef, lnInclude, lnIncludeP, lnIncludeG, lnUnknown, lnUse, lnEnd,
             lnIllegal, lnComment, lnOpen, lnClose, lnString, lnSystem, lnBlank}

MaxTextLines == 3

\* the lines of the branches of #ifdef A ... #else ... #endif and behind it
CondLines == {lnUse, lnEnd, lnComment, lnBlank, lnDefine, lnString, lnInclude}

\* the lines of the texts that include C, H, S, M and the missing G
IncludeLines == {lnIncludeC, lnIncludeH, lnIncludeS, lnIncludeM, lnIncludeG, lnEnd,
                lnDefine}
MaxIncludeLines == 2

\* the lines of the texts that define macros in terms of each other, and the
\* lines that use them
MacroLines == {lnDefine, lnDefineSelf, lnDefineB, lnDefineC}
UseLines == {lnUse, lnUseB, lnUseC}
MaxMacroLines == 3

RECURSIVE JoinLines(_)
JoinLines(ls) ==
  IF Len(ls) = 0 THEN << >>
  ELSE IF Len(ls) = 1 THEN ls[1]
  ELSE ls[1] \o << "\n" >> \o JoinLines(Tail(ls))

\* the pass has not started
PassIdle ==
  /\ tokens = << >>
  /\ lineCount = 0
  /\ links = << >>
  /\ i = 1
  /\ pc = "idle"
  /\ blockStack = << >>
  /\ scopeStack = << << >> >>
  /\ diagnostics = << >>
  /\ foldingRanges = << >>
  /\ gotoList = << >>
  /\ modendFound = FALSE
  /\ loopVar = 0

\* the entry {} that preprocStack holds from the start (987)
NoToken ==
  [type |-> "", value |-> << >>, uri |-> DocUri, line |-> 0, column |-> 0,
   offset |-> 0, length |-> 0]

\* the state at the call tokenize(uri, text) of analyze (978-988, 1850)
RootCall(ls) ==
  callStack = << Activation("root", DocUri, JoinLines(ls), TRUE, NoOrigin) >>

LexStart ==
  /\ defineStack = << TRUE >>
  /\ preprocStack = << NoToken >>
  /\ defines = {}
  /\ includeStack = << >>
  /\ section = "problem"
  /\ lexDiagnostics = << >>
  /\ lexFoldingRanges = << >>
  /\ lexTokens = << >>
  /\ lexPc = "run"
  /\ PassIdle
  /\ SrvIdle
  /\ FsIdle

\* conditionals nested in both branches of a conditional, with and without the
\* macro A:  [#define A] #if(n)def A / #if(n)def A / b1 / #else / b2 / #endif /
\* #else / #if(n)def A / b3 / #endif / #endif / a
NestOpeners == {lnIfdef, lnIfndef}
NestLines == {lnUse, lnDefineB}
NestedTexts ==
  \E pre \in {<< >>, << lnDefine >>}, o \in NestOpeners, n \in NestOpeners,
     b \in [1..4 -> NestLines] :
    RootCall(pre \o << o, n, b[1], lnElse, b[2], lnEndif, lnElse, n, b[3], lnEndif,
                       lnEndif, b[4] >>)

\* the documents that include files
IncludeTexts ==
  \E k \in 1..MaxIncludeLines : \E ls \in [1..k -> IncludeLines] : RootCall(ls)

InitLex ==
  /\ \/ \E k \in 0..MaxTextLines : \E ls \in [1..k -> TextLines] : RootCall(ls)
     \/ \E b \in CondLines, e \in CondLines, a \in CondLines :
          RootCall(<< lnIfdef, b, lnElse, e, lnEndif, a >>)
     \/ IncludeTexts
     \/ NestedTexts
     \/ \E k \in 0..MaxMacroLines : \E ls \in [1..k -> MacroLines], u \in UseLines :
          RootCall(ls \o << u >>)
     \/ \E ls \in {<< lnOpenString >>, << lnOpenString, lnEnd >>} : RootCall(ls)
  /\ LexStart

NextLex ==
  \/ LexWhitespace
  \/ LexNewline
  \/ LexLineComment
  \/ LexBlockComment
  \/ LexIfdef
  \/ LexElse
  \/ LexEndif
  \/ LexInclude
  \/ LexDefine
  \/ LexUndef
  \/ LexUnknown
  \/ LexInactiveDirective
  \/ LexInactive
  \/ LexString
  \/ LexNumber
  \/ LexWord
  \/ LexMacro
  \/ LexSymbol
  \/ LexIllegal
  \/ LexReturn
  \/ LexDone

SpecLex == InitLex /\ [][NextLex]_vars

\* tokenize() is a loop of one thread: it takes its next step whenever it has one
\* the documents of the fair scan: those that include S, M, H and G, and one
\* for every other kind of line
FairTexts ==
  { << lnIncludeS >>, << lnIncludeM, lnEnd >>, << lnIncludeH, lnIncludeG >>,
    << lnIncludeS, lnIncludeM >>, << lnIncludeC, lnInclude >>,
    << lnIfdef, lnUse, lnElse >>, << lnIfndef, lnDefine, lnEndif >>,
    << lnIfdef, lnDefine, lnEndif >>, << lnDefine, lnUse, lnUndef >>,
    << lnUnknown, lnIllegal, lnComment >>, << lnOpen, lnClose, lnString >>,
    << lnSystem, lnBlank, lnEnd >>, << lnDefineSelf, lnUse >>, << lnElse >> }

InitLexFair == LexStart /\ \E ls \in FairTexts : RootCall(ls)

SpecLexFair == InitLexFair /\ [][NextLex]_vars /\ WF_vars(NextLex)

(***************************************************************************)
(* Hover requests on the tokens of the cached analysis                     *)
(***************************************************************************)
MaxHoverLine == 2
MaxHoverCharacter == 4

\* findTokenAt (902-911): the index of the first token of the file that covers
\* the position, its end column included; 0 for null
findTokenAt(toks, uri, line, character) ==
  LET covers == {k \in 1..Len(toks) :
                   /\ toks[k].line = line
                   /\ toks[k].uri = uri
                   /\ character >= toks[k].column
                   /\ character <= toks[k].column + toks[k].length}
  IN IF covers = {} THEN 0 ELSE CHOOSE k \in covers : \A m \in covers : k <= m

\* the chain of 2716-2747 for a token that was found: link is what the pass
\* attached to the token, a definition (> 0), a builtin (-1) or nothing (0).
\* Every branch returns, so 2750-2773 is never reached.
HoverContents(t, link) ==
  IF t.define # << >> THEN "define"
  ELSE IF link > 0 THEN "definition"
  ELSE IF link = -1 THEN "builtin"
  ELSE "token"

\* the links the pass can have attached to a token: to identifiers only
LinksOf(t) == IF t.type = "identifier" THEN {0, -1, 1} ELSE {0}

\* the tokens of the cache entry: none when analyze did not return
CachedTokens == IF lexPc = "done" THEN lexTokens ELSE << >>

\* connection.onHover (2704-2774) for a position of the document
onHover ==
  /\ lexPc \in {"done", "crashed"}
  /\ \E line \in 0..MaxHoverLine, character \in 0..MaxHoverCharacter :
     \E k \in {findTokenAt(CachedTokens, DocUri, line, character)} :
     \E link \in (IF k = 0 THEN {0} ELSE LinksOf(CachedTokens[k])) :
       hoverResponse' =
         [line |-> line, character |-> character, link |-> link, token |-> k,
          kind |-> IF lexPc # "done" \/ k = 0 THEN "null"
                   ELSE HoverContents(CachedTokens[k], link)]
  /\ UNCHANGED << hasConfigurationCapability, globalSettings, clientSettings,
                  documentSettings, promises, awaiting, docOpen, docText,
                  documentTokenCache, publishedDiagnostics, observed, events,
                  passVars, lexVars, fsVars >>

NextHover ==
  \/ NextLex
  \/ onHover

\* the documents hovered over: those of the fair scan, and two with names
HoverTexts == FairTexts \cup {<< lnUseC >>, << lnDefine, lnUse, lnComment >>}

InitHover == LexStart /\ \E ls \in HoverTexts : RootCall(ls)

SpecHover == InitHover /\ [][NextHover]_vars

\* the token types for which a hover gives no answer (2751)
SilentTypes == {"comment", "inactive", "string", "bitstring", "number"}

\* a hover request was answered
Hovered == hoverResponse.kind # "none"

\* the token the answered request found
HoverToken == CachedTokens[hoverResponse.token]

\* C21: a hover answers null when no analysis is cached, when no token covers
\* the position and when the covering token is a comment, inactive text, a
\* string, a bit string or a number; else it answers the macro text of a macro
\* reference, else the declaration of the linked symbol, else the signature of
\* the builtin, else the description of the token
C21_HoverAnswer ==
  Hovered =>
    hoverResponse.kind =
      IF lexPc # "done" \/ hoverResponse.token = 0 THEN "null"
      ELSE IF HoverToken.type \in SilentTypes THEN "null"
      ELSE IF HoverToken.type = "preproc" /\ HoverToken.define # << >> THEN "define"
      ELSE IF hoverResponse.link > 0 THEN "definition"
      ELSE IF hoverResponse.link = -1 THEN "builtin"
      ELSE "token"

(***************************************************************************)
(* Properties of tokenize()                                                *)
(***************************************************************************)
\* C2: tokenize never aborts; whatever the text, no preprocessor line (an
\* #else or #endif on the first line of the file included) and no illegal
\* character ends the scan before the end of the text.
C2_TokenizeNeverAborts == lexPc # "crashed"

\* the tokens a step appends to the running activation, and its diagnostics
NewTokens ==
  LET f == Top(callStack)
      g == callStack'[Len(callStack)]
  IN SubSeq(g.toks, Len(f.toks) + 1, Len(g.toks))

LexEmitted == SubSeq(lexDiagnostics', Len(lexDiagnostics) + 1, Len(lexDiagnostics'))

\* the scan stands at a character that is no blank and no line break
AtText(f) ==
  /\ f.offset < Len(f.text)
  /\ At(f.text, f.offset) \notin Blank \cup LineBreak

StartsComment(f) ==
  \/ At(f.text, f.offset) = "!"
  \/ At(f.text, f.offset) = "/" /\ At(f.text, f.offset + 1) = "*"

\* the line at the scan is #ifdef NAME, #ifndef NAME, #else or #endif
StartsConditional(f) ==
  \/ HasPrefix(f.text, f.offset, W_else)
  \/ HasPrefix(f.text, f.offset, W_endif)
  \/ /\ \/ HasPrefix(f.text, f.offset, W_ifdef \o << " " >>)
        \/ HasPrefix(f.text, f.offset, W_ifndef \o << " " >>)
     /\ At(f.text, SpanWhile(f.text, f.offset + Len(W_ifdef), {" ", "f"})) \in NameStart

\* what is left of the line at the scan, as one 'inactive' token
RestOfLine(f) ==
  LET e == SpanUntil(f.text, f.offset, LineBreak) IN
  [type |-> "inactive", value |-> Slice(f.text, f.offset, e), uri |-> f.uri,
   line |-> f.line, column |-> 0, offset |-> f.offset, length |-> e - f.offset,
   define |-> << >>]

InactiveHint(token) == [severity |-> "hint", message |-> MsgInactive, token |-> token]

\* the scan of a file stands in a block that a conditional has switched off
InInactiveBlock ==
  /\ LexRunning
  /\ Top(callStack).preprocess
  /\ ~Top(defineStack)
  /\ AtText(Top(callStack))

InActiveBlock ==
  /\ LexRunning
  /\ Top(defineStack)
  /\ AtText(Top(callStack))

\* the conditional lines switch as the macro table says: #ifdef U with U not
\* defined switches off, its #else switches on again unless an enclosing
\* block is off, #endif returns to the enclosing block
ConditionalSwitches ==
  LET f == Top(callStack) IN
  /\ LexAt("ifdef") /\ HasPrefix(f.text, f.offset, W_ifdef)
       /\ ~HasDefine(IfdefParse(f.text, f.offset).p.name)
     => Len(defineStack') = Len(defineStack) + 1 /\ ~Top(defineStack')
  /\ LexAt("else") /\ lexPc' = "run"
     => /\ Len(defineStack') = Len(defineStack)
        /\ Top(defineStack') =
             (~Top(defineStack) /\ \A k \in 1..(Len(defineStack) - 1) : defineStack[k])
  /\ LexAt("endif") /\ lexPc' = "run" /\ Len(defineStack) > 1
     => defineStack' = Pop(defineStack)

\* in a block that is on, no line but a conditional line gets a hint, and no
\* text but that behind a preprocessor line is made an 'inactive' token
ActiveLines ==
  InActiveBlock /\ ~StartsConditional(Top(callStack)) /\ Len(callStack') = Len(callStack)
  => /\ \A k \in 1..Len(LexEmitted) : LexEmitted[k].severity # "hint"
     /\ At(Top(callStack).text, Top(callStack).offset) # "#"
        => \A k \in 1..Len(NewTokens) : NewTokens[k].type # "inactive"

\* C12 as stated: for #ifdef U ... #else ... #endif with U not defined, every
\* line of the #ifdef branch becomes an 'inactive' token with a hint, and the
\* lines of the #else branch and the lines behind #endif are active.
C12_IfdefBranchInactive ==
  [][ /\ ConditionalSwitches
      /\ ActiveLines
      /\ InInactiveBlock /\ ~StartsConditional(Top(callStack))
         => /\ Len(NewTokens) >= 1
            /\ \A k \in 1..Len(NewTokens) : NewTokens[k] = RestOfLine(Top(callStack))
            /\ LexEmitted = << InactiveHint(RestOfLine(Top(callStack))) >> ]_vars

\* C12 as the code has it: the conditional lines switch as stated, and a
\* block that is on makes no 'inactive' line.  In a block that is off, a '!'
\* or '/*' still starts a comment, which becomes a 'comment' token without a
\* hint (and a block comment runs on over the following lines, #else and
\* #endif included); any other text up to the end of its line becomes one
\* 'inactive' token in column 0, twice the same token when the text starts
\* with '#'; the hint on that token is reported in the document analysed and
\* in no included file.
C12_InactiveExceptComments ==
  [][ /\ ConditionalSwitches
      /\ ActiveLines
      /\ InInactiveBlock /\ ~StartsConditional(Top(callStack))
         => LET f == Top(callStack) IN
            IF StartsComment(f)
            THEN /\ Len(NewTokens) = 1
                 /\ NewTokens[1].type = "comment"
                 /\ NewTokens[1].offset = f.offset
                 /\ LexEmitted = << >>
                 /\ defineStack' = defineStack
            ELSE /\ NewTokens = IF At(f.text, f.offset) = "#"
                                THEN << RestOfLine(f), RestOfLine(f) >>
                                ELSE << RestOfLine(f) >>
                 /\ LexEmitted = IF f.uri = DocUri
                                 THEN << InactiveHint(RestOfLine(f)) >> ELSE << >>
                 /\ defineStack' = defineStack
                 /\ Top(callStack').line = f.line + 1
                    \/ Top(callStack').offset = Len(f.text) ]_vars

\* the text #ifdef A / END / #else / END / #endif / END has been scanned: END of
\* line 1 is an 'inactive' token with its hint, the other two are keywords
C12_Witness ==
  /\ lexPc = "done"
  /\ callStack[1].text = JoinLines(<< lnIfdef, lnEnd, lnElse, lnEnd, lnEndif, lnEnd >>)
  /\ \E k \in 1..Len(lexTokens) :
       /\ lexTokens[k].type = "inactive" /\ lexTokens[k].value = lnEnd
       /\ lexTokens[k].line = 1
       /\ \E d \in 1..Len(lexDiagnostics) :
            lexDiagnostics[d] = InactiveHint(lexTokens[k])
  /\ \A n \in {3, 5} : \E k \in 1..Len(lexTokens) :
       /\ lexTokens[k].type = "keyword" /\ lexTokens[k].value = lnEnd
       /\ lexTokens[k].line = n
  /\ Len(lexDiagnostics) = 1

\* the line and the column of an offset of a text
LineAt(text, offset) == Cardinality({k \in 1..offset : text[k] = "\n"})
ColumnAt(text, offset) ==
  LET breaks == {k \in 1..offset : text[k] = "\n"} IN
  IF breaks = {} THEN offset ELSE offset - CHOOSE k \in breaks : \A m \in breaks : m <= k

\* the token stands in the text where its position says
InPlace(text, t) ==
  /\ t.offset + t.length <= Len(text)
  /\ t.value = Slice(text, t.offset, t.offset + t.length)

\* token k of the result stands for a macro reference of the text: a 'preproc'
\* token that is a name, at the position of that name
IsReference(text, k) ==
  LET p == lexTokens[k] IN
  /\ p.type = "preproc"
  /\ p.length > 0
  /\ InPlace(text, p)
  /\ p.value[1] \in NameStart
  /\ p.line = LineAt(text, p.offset)
  /\ p.column = ColumnAt(text, p.offset)

SamePosition(t, p) ==
  /\ t.line = p.line
  /\ t.column = p.column
  /\ t.offset = p.offset
  /\ t.length = p.length

\* token k of the result was made from a replacement text: its value is not
\* what the document has at its position, or it follows a reference at its
\* own position
Expanded(text, k) ==
  \/ ~InPlace(text, lexTokens[k])
  \/ \E r \in 1..(k - 1) : /\ IsReference(text, r)
                           /\ SamePosition(lexTokens[k], lexTokens[r])

\* C13: every token of the document that the expansion of a macro reference
\* has produced carries the line, column, offset and length of the reference
\* in the document, whatever the replacement text: several tokens, or further
\* macro references at any depth.
C13_ExpansionAtReference ==
  lexPc = "done"
  => LET text == callStack[1].text IN
     \A k \in 1..Len(lexTokens) :
       lexTokens[k].uri = DocUri /\ Expanded(text, k)
       => \E r \in 1..(k - 1) : /\ IsReference(text, r)
                                /\ SamePosition(lexTokens[k], lexTokens[r])

\* the text defines A as 1, B as A 2 and C as B+B, and its last line is X C:
\* C, both B, both A and the five tokens of  1 2 + 1 2  stand at the C
C13_Witness ==
  /\ lexPc = "done"
  /\ callStack[1].text = JoinLines(<< lnDefine, lnDefineB, lnDefineC, lnUseC >>)
  /\ LET text == callStack[1].text
         at == {k \in 1..Len(lexTokens) : lexTokens[k].offset = Len(text) - 1}
     IN /\ Cardinality({k \in at : lexTokens[k].type = "preproc"}) = 5
        /\ Cardinality({k \in at : lexTokens[k].type = "number"}) = 4
        /\ Cardinality(at) = 10
        /\ \A k \in at : lexTokens[k].length = 1 /\ lexTokens[k].line = 3
                         /\ lexTokens[k].column = 2

\* the scan of the running activation stands at an #include line
AtIncludeLine ==
  /\ LexRunning
  /\ Top(callStack).preprocess
  /\ Top(callStack).isLineStart
  /\ Top(defineStack)
  /\ HasPrefix(Top(callStack).text, Top(callStack).offset, W_include \o << " " >>)

\* the step leaves the #include behind without opening a file: no activation
\* is added, no exception is thrown, and the scan of the including file goes
\* on behind the line
IncludeSkipped ==
  LET f == Top(callStack)
      g == Top(callStack')
  IN /\ Len(callStack') = Len(callStack)
     /\ includeStack' = includeStack
     /\ lexPc' = "run"
     /\ g.text = f.text
     /\ g.offset > f.offset
     /\ g.line = f.line + 1 \/ g.offset = Len(f.text)

\* C14: the scan ends for files that include themselves or each other; the
\* include nesting never exceeds the cap of 100, and at the cap an #include is
\* skipped without a crash and the scan of the including file goes on.
C14_IncludeCapEndsScan ==
  /\ <>(lexPc # "run")
  /\ [](Len(includeStack) <= 100 /\ Len(callStack) <= 100 + 2)
  /\ [][AtIncludeLine /\ Len(includeStack) = 100 => IncludeSkipped]_vars

\* the document includes S, which includes itself: S has been scanned 100
\* times, each time up to its last token X, and the scan is done
C14_Witness ==
  /\ lexPc = "done"
  /\ callStack[1].text = lnIncludeS
  /\ Cardinality({k \in 1..Len(lexTokens) : lexTokens[k].value = << "X" >>}) = 100
  /\ Cardinality({k \in 1..Len(lexTokens) : lexTokens[k].type = "preproc"}) = 100 + 1

\* the scan stands at an #include whose file cannot be read, below the cap
AtFailedInclude ==
  /\ AtIncludeLine
  /\ Len(includeStack) < 100
  /\ LET f == Top(callStack)
         d == IncludeParse(f.text, f.offset)
     IN d.ok /\ \A file \in Files : file.path # FinalIncludePath(d.path)

\* the tokens of the #include line itself: the directive, and what follows it
\* on its line
IncludeLineTokens(f) ==
  LET d == IncludeParse(f.text, f.offset)
      e == SpanUntil(f.text, f.offset, LineBreak)
  IN << [type |-> "preproc", value |-> Slice(f.text, f.offset, d.end), uri |-> f.uri,
         line |-> f.line, column |-> f.column, offset |-> f.offset,
         length |-> d.end - f.offset, define |-> << >>],
        [type |-> "inactive", value |-> Slice(f.text, d.end, e), uri |-> f.uri,
         line |-> f.line, column |-> f.column + (d.end - f.offset), offset |-> d.end,
         length |-> e - d.end, define |-> << >>] >>

IncludeErrors(f) ==
  SelectSeq(LexEmitted, LAMBDA x : x.severity = "error"
                                   /\ x.token = IncludeLineTokens(f)[1])

\* C16 as stated: a failed inclusion at any nesting level is reported as an
\* error on the #include token, adds no tokens but those of its own line, and
\* the scan of the including file goes on.
C16_FailedIncludeReported ==
  [][AtFailedInclude
     => /\ Len(IncludeErrors(Top(callStack))) = 1
        /\ NewTokens = IncludeLineTokens(Top(callStack))
        /\ IncludeSkipped]_vars

\* C16 as the code has it: the error is reported when the #include stands in
\* the document analysed; the failed #include of an included file is
\* reported nowhere.  In both cases only the tokens of the #include line are
\* added and the scan of the including file goes on.
C16_FailedIncludeOfDocument ==
  [][AtFailedInclude
     => /\ LexEmitted = IF Top(callStack).uri = DocUri
                        THEN << [severity |-> "error",
                                 message |-> MsgInclude(FinalIncludePath(
                                   IncludeParse(Top(callStack).text,
                                                Top(callStack).offset).path)),
                                 token |-> IncludeLineTokens(Top(callStack))[1]] >>
                        ELSE << >>
        /\ NewTokens = IncludeLineTokens(Top(callStack))
        /\ IncludeSkipped]_vars

\* the document includes H and then G: H includes G, which does not exist,
\* and goes on to its X; the one error is that of the document's own #include
C16_Witness ==
  /\ lexPc = "done"
  /\ callStack[1].text = JoinLines(<< lnIncludeH, lnIncludeG >>)
  /\ \E k \in 1..Len(lexTokens) : /\ lexTokens[k].uri = "inc:H"
                                  /\ lexTokens[k].value = << "X" >>
  /\ Len(lexDiagnostics) = 1
  /\ lexDiagnostics[1].severity = "error"
  /\ lexDiagnostics[1].token.uri = DocUri
  /\ lexDiagnostics[1].token.line = 1
  /\ Cardinality({k \in 1..Len(lexTokens) : lexTokens[k].type = "preproc"}) = 3

(***************************************************************************)
(* Properties of the pass                                                  *)
(***************************************************************************)
\* the diagnostics a step appends
Emitted == SubSeq(diagnostics', Len(diagnostics) + 1, Len(diagnostics'))

HasMessage(diags, tag) == \E k \in 1..Len(diags) : diags[k].message[1] = tag
Reported(message) == \E k \in 1..Len(diagnostics) : diagnostics[k].message = message
AnError == \E k \in 1..Len(diagnostics) : diagnostics[k].severity = "error"
InDocument(tok) == tokens[tok].uri = DocUri

\* C1: analyze completes for every token stream: the pass never throws, also
\* when the stream ends directly behind a statement keyword or an accepted
\* closing keyword stands on the first line.
C1_AnalyzeCompletes == pc # "crashed"

\* valid nesting: a stack of the open blocks' keywords, MODULE at the outermost
\* level only, label-prefixed PROC/TASK at the outermost level or directly in the
\* module, every closer meeting a block it closes, nothing open at the end
IsLabelPrefixed(toks, k) ==
  /\ k >= 3
  /\ toks[k - 1].type = "symbol" /\ toks[k - 1].value = ":"
  /\ toks[k - 2].type = "identifier"

RECURSIVE WellNestedFrom(_, _, _)
WellNestedFrom(toks, k, open) ==
  IF k > Len(toks) THEN open = << >>
  ELSE IF toks[k].type # "keyword" THEN WellNestedFrom(toks, k + 1, open)
  ELSE LET kw == toks[k].value
           top == IF open = << >> THEN "" ELSE open[Len(open)]
           rest == SubSeq(open, 1, Len(open) - 1)
       IN CASE kw \in {"MODULE", "SHELLMODULE"} ->
                 open = << >> /\ WellNestedFrom(toks, k + 1, << "MODULE" >>)
            [] kw \in {"PROC", "PROCEDURE", "TASK"} /\ IsLabelPrefixed(toks, k) ->
                 /\ open \in {<< >>, << "MODULE" >>}
                 /\ WellNestedFrom(toks, k + 1, Append(open, "BODY"))
            [] kw \in {"BEGIN", "REPEAT", "IF", "CASE"} ->
                 WellNestedFrom(toks, k + 1, Append(open, kw))
            [] kw = "ELSE" ->
                 top = "IF" /\ WellNestedFrom(toks, k + 1, Append(rest, "ELSE"))
            [] kw = "FIN" ->
                 top \in {"IF", "ELSE", "CASE"} /\ WellNestedFrom(toks, k + 1, rest)
            [] kw = "END" ->
                 top \in {"BODY", "BEGIN", "REPEAT"} /\ WellNestedFrom(toks, k + 1, rest)
            [] kw = "MODEND" ->
                 top = "MODULE" /\ WellNestedFrom(toks, k + 1, rest)
            [] OTHER -> WellNestedFrom(toks, k + 1, open)

WellNested(toks) == WellNestedFrom(toks, 1, << >>)

\* C3: for a validly nested stream no unexpected-closer error and no
\* block-not-closed warning is emitted, and at the end of the stream the block
\* stack is empty and only the global scope is left.
C3_ValidNestingIsClean ==
  WellNested(tokens) =>
    /\ ~HasMessage(diagnostics, "Unerwartetes Blockende")
    /\ ~HasMessage(diagnostics, "Block wird nicht geschlossen")
    /\ pc = "done" => blockStack = << >> /\ Len(scopeStack) = 1

\* the closing keyword under the index meets no frame it may close
Closers == {"END", "ELSE", "FIN", "MODEND"}
PermittedOpeners(closer) ==
  CASE closer = "END"    -> {"TASK", "PROC", "PROCEDURE", "REPEAT", "BEGIN"}
    [] closer = "ELSE"   -> {"IF"}
    [] closer = "FIN"    -> {"IF", "ELSE", "CASE"}
    [] closer = "MODEND" -> {"MODULE", "SHELLMODULE"}

MalformedCloser ==
  /\ AtKeyword(Closers)
  /\ \/ Len(blockStack) = 0
     \/ Top(blockStack).keyword \notin PermittedOpeners(tokens[i].value)

OneErrorAtCloser ==
  Emitted = << [severity |-> "error", message |-> MsgUnexpected(tokens[i].value),
                token |-> i] >>

\* C4 (as stated): every malformed closer yields exactly one error at the
\* closing token and leaves both stacks unchanged.
C4_MalformedCloser ==
  [][MalformedCloser =>
       OneErrorAtCloser /\ UNCHANGED << blockStack, scopeStack >>]_vars

\* C4 (amended): every malformed closer leaves both stacks unchanged; a closer
\* of the analysed document yields exactly one error at the closing token, a
\* closer from an included file yields no diagnostic.
C4_MalformedCloserOfDocument ==
  [][MalformedCloser =>
       /\ UNCHANGED << blockStack, scopeStack >>
       /\ IF InDocument(i) THEN OneErrorAtCloser ELSE Emitted = << >>]_vars

\* two malformed END in a row, each with its own error, stacks as at the start
C4_Witness ==
  /\ Len(diagnostics) = 2
  /\ \A k \in 1..2 : /\ diagnostics[k].message = MsgUnexpected("END")
                     /\ diagnostics[k].token < i
  /\ diagnostics[1].token # diagnostics[2].token
  /\ blockStack = << >> /\ Len(scopeStack) = 1

\* C5 (as stated): the scope stack and the block stack have the same length.
C5_SameLength == Len(scopeStack) = Len(blockStack)

ScopeOpeners == {"PROC", "PROCEDURE", "TASK", "REPEAT", "BEGIN"}

\* C5 (amended): the scope stack is never empty and holds at most one scope
\* more than the block stack holds frames; it holds exactly one more when
\* every open frame is a PROC, TASK, REPEAT or BEGIN frame, and fewer when a
\* MODULE, IF, ELSE or CASE frame (which has no scope) is open.
C5_ScopesAndFrames ==
  /\ Len(scopeStack) >= 1
  /\ Len(scopeStack) <= Len(blockStack) + 1
  /\ (Len(scopeStack) = Len(blockStack) + 1) <=>
       \A k \in 1..Len(blockStack) : blockStack[k].keyword \in ScopeOpeners

\* an IF inside a BEGIN inside a MODULE: three frames, two scopes
C5_Witness ==
  /\ Len(blockStack) = 3 /\ Len(scopeStack) = 2
  /\ blockStack[1].keyword = "MODULE"
  /\ blockStack[2].keyword = "BEGIN"
  /\ blockStack[3].keyword = "IF"

\* the scopes of the stack that hold the name, and the innermost of them
Holders(ss, name) == {k \in 1..Len(ss) : ScopeHas(ss[k], name)}
Nearest(ss, name) == CHOOSE k \in Holders(ss, name) : \A m \in Holders(ss, name) : m <= k
NamesIn(ss) == UNION {{ss[k][j].name : j \in 1..Len(ss[k])} : k \in 1..Len(ss)}
LookupKinds == {"", "PROCEDURE", "TASK", "SEMA", "BOLT", "FIXED", "@LABEL"}

ByDcl(k) ==
  \E j \in 1..(k - 1) :
    /\ IsKeywordAt(j, {"DCL", "DECLARE"})
    /\ \A m \in j..k : ~IsSymbolAt(m, ";")

\* the identifier under the index is a reference (no label definition)
AtReference ==
  /\ Running
  /\ tokens[i].type = "identifier"
  /\ ~IsSymbolAt(findNextCodeToken(tokens, i), ":")

\* the name is declared by DCL in a scope that is open at the index
DclVisible(name) ==
  \E k \in 1..Len(scopeStack) : \E j \in 1..Len(scopeStack[k]) :
    scopeStack[k][j].name = name /\ ByDcl(scopeStack[k][j].nameToken)

\* the name was declared by DCL before the index, but in no scope that is open
DclOnlyInClosedScope(name) ==
  /\ \E k \in 1..(i - 1) : tokens[k].type = "identifier" /\ tokens[k].value = name
                           /\ ByDcl(k)
  /\ Holders(scopeStack, name) = {}

UndefinedErrorAt(diags, tok) ==
  \E k \in 1..Len(diags) : /\ diags[k].severity = "error"
                           /\ diags[k].token = tok
                           /\ diags[k].message = MsgNotDefined(tokens[tok].value)

\* C7: a reference to a name that DCL declared in an open scope gets its
\* definition link and no 'undefined' error, whatever token follows it; a
\* reference to a name that DCL declared only in a scope closed since is
\* reported undefined.
C7_DclNameResolves ==
  [][AtReference =>
       /\ DclVisible(tokens[i].value) =>
            links'[i] > 0 /\ ~UndefinedErrorAt(Emitted, i)
       /\ DclOnlyInClosedScope(tokens[i].value) /\ InDocument(i) =>
            UndefinedErrorAt(Emitted, i)]_vars

\* --- SEMA / BOLT operations on a name of another kind
KindOps == SEMA_OP_KEYWORDS \cup BOLT_OP_KEYWORDS
KindOf(kw) == IF kw \in SEMA_OP_KEYWORDS THEN "SEMA" ELSE "BOLT"
KindMessage(kw, name) ==
  IF kw \in SEMA_OP_KEYWORDS THEN MsgNoSemaDecl(name, kw) ELSE MsgNoBoltDecl(name, kw)
Operand == findNextCodeToken(tokens, i)

AtKindOp ==
  /\ AtKeyword(KindOps)
  /\ Operand # 0
  /\ tokens[Operand].type = "identifier"

\* the operand's nearest declaration is of another kind than the operation's
OperandOfOtherKind ==
  /\ Holders(scopeStack, tokens[Operand].value) # {}
  /\ LET n == Nearest(scopeStack, tokens[Operand].value) IN
     scopeStack[n][ScopeIndex(scopeStack[n], tokens[Operand].value)].typename
       # KindOf(tokens[i].value)

OperandDeclaredNowhere == Holders(scopeStack, tokens[Operand].value) = {}

ErrorsAt(diags, tok) ==
  {k \in 1..Len(diags) : diags[k].severity = "error" /\ diags[k].token = tok}

\* the messages reported for a name that is declared nowhere
UndeclaredMessages(kw, name) == {KindMessage(kw, name), MsgNotDefined(name)}

AtOperandAgain ==
  /\ AtReference
  /\ IsKeywordAt(findPreviousCodeToken(tokens, i), KindOps)

IsScenario(stmts) == \E l \in ScenarioLayouts : tokens = Program(stmts, l).toks
FirstToken(type, value) ==
  CHOOSE k \in 1..Len(tokens) :
    /\ tokens[k].type = type /\ tokens[k].value = value
    /\ \A m \in 1..(k - 1) : ~(tokens[m].type = type /\ tokens[m].value = value)
Behind(type, value) == pc # "crashed" /\ i > FirstToken(type, value)
UnusedWarnings(name) ==
  {k \in 1..Len(diagnostics) : /\ diagnostics[k].severity = "warning"
                               /\ diagnostics[k].message = MsgUnused(name)}

\* C9 (as stated): in the MODULE scenario X is reported unused once the PROC's
\* END is processed; M and P are never reported unused.
C9_ScenarioModule ==
  IsScenario(ScenarioModule) =>
    /\ Behind("keyword", "END") => Reported(MsgUnused("X"))
    /\ ~Reported(MsgUnused("M"))
    /\ ~Reported(MsgUnused("P"))

\* C9 (amended): in the MODULE scenario neither X (the assignment marks it
\* used) nor M is ever reported unused; P, which is neither called nor GLOBAL,
\* is reported unused exactly once, by the sweep of the accepted MODEND.
C9_ScenarioModuleUnused ==
  IsScenario(ScenarioModule) =>
    /\ ~Reported(MsgUnused("X"))
    /\ ~Reported(MsgUnused("M"))
    /\ UnusedWarnings("P") # {} <=> modendFound
    /\ Cardinality(UnusedWarnings("P")) <= 1
    /\ \A k \in UnusedWarnings("P") :
         diagnostics[k].token = FirstToken("identifier", "P")

\* the pass over the MODULE scenario is done and has reported P
C9_Witness ==
  /\ IsScenario(ScenarioModule)
  /\ pc = "done"
  /\ modendFound
  /\ Reported(MsgUnused("P"))

\* C10 (as stated): the TASK scenario yields no diagnostics at all.
C10_ScenarioTask == IsScenario(ScenarioTask) => diagnostics = << >>

\* C10 (amended): the pass over the TASK scenario reports no error and links
\* ACTIVATE's operand to the task T; no diagnostic is reported before the end
\* of the stream, where the sweep of the global scope reports Q (a PROC that
\* is neither called nor GLOBAL) unused: one warning and its hint, nothing else.
C10_ScenarioTaskOnlyQ ==
  IsScenario(ScenarioTask) =>
    /\ ~AnError
    /\ Behind("keyword", "ACTIVATE") =>
         links[FirstToken("keyword", "ACTIVATE") + 1] = FirstToken("identifier", "T")
    /\ pc # "done" => diagnostics = << >>
    /\ pc = "done" =>
         diagnostics =
           << [severity |-> "warning", message |-> MsgUnused("Q"),
               token |-> FirstToken("identifier", "Q")],
              [severity |-> "hint", message |-> MsgInactive,
               token |-> FirstToken("identifier", "Q")] >>

\* the pass over the TASK scenario is done, T linked, Q reported
C10_Witness ==
  /\ IsScenario(ScenarioTask)
  /\ pc = "done"
  /\ links[FirstToken("keyword", "ACTIVATE") + 1] = FirstToken("identifier", "T")
  /\ Len(diagnostics) = 2

\* --- GOTOs of a PROC/TASK body
\* the END under the index is accepted as the closer of a PROC/TASK body
BodyEnd ==
  /\ AtKeyword({"END"})
  /\ CloserAccepted("END")
  /\ Top(blockStack).keyword \in {"PROC", "PROCEDURE", "TASK"}

\* token k is the keyword of a label-prefixed PROC/TASK header
HeaderAt(k) ==
  /\ IsKeywordAt(k, {"PROC", "PROCEDURE", "TASK"})
  /\ LET prev == findPreviousCodeToken(tokens, k) IN
     /\ IsSymbolAt(prev, ":")
     /\ findPreviousCodeToken(tokens, prev) # 0
     /\ tokens[findPreviousCodeToken(tokens, prev)].type = "identifier"

\* the last header before the index (the header of the body, unless a header
\* stands inside the body)
LastHeader ==
  CHOOSE h \in 1..(i - 1) : HeaderAt(h) /\ \A m \in (h + 1)..(i - 1) : ~HeaderAt(m)

\* the label tokens of the GOTO statements between token a and the index
GotoLabels(a) ==
  {findNextCodeToken(tokens, g) :
     g \in {m \in (a + 1)..(i - 1) :
              /\ IsKeywordAt(m, {"GOTO"})
              /\ findNextCodeToken(tokens, m) # 0
              /\ tokens[findNextCodeToken(tokens, m)].type = "identifier"}}

\* a label of that name is defined between token a and the index
LabelDefined(name, a) ==
  \E k \in (a + 1)..(i - 1) :
    /\ tokens[k].type = "identifier" /\ tokens[k].value = name
    /\ IsSymbolAt(findNextCodeToken(tokens, k), ":")
    /\ ~IsKeywordAt(findNextCodeToken(tokens, findNextCodeToken(tokens, k)),
                    {"PROC", "PROCEDURE", "TASK"})

\* the 'label not defined' errors of the step for the name, at token tok
GotoErrorsOf(name, tok) ==
  {k \in 1..Len(Emitted) : /\ Emitted[k].severity = "error"
                           /\ Emitted[k].message = MsgGotoUndefined(name)
                           /\ Emitted[k].token = tok}

\* C11 (as stated): at the END of a body every GOTO of the body whose label the
\* body does not define gets its 'label not defined' error positioned at the
\* END, and a GOTO whose label the body defines gets none.
C11_GotoErrorAtEnd ==
  [][BodyEnd =>
       \A l \in GotoLabels(Top(blockStack).token) :
         IF LabelDefined(tokens[l].value, Top(blockStack).token)
         THEN \A tok \in 1..Len(tokens) : GotoErrorsOf(tokens[l].value, tok) = {}
         ELSE GotoErrorsOf(tokens[l].value, i) # {}]_vars

\* C11 (amended): the 'label not defined' errors are emitted by the accepted
\* END of a body and by no other step.  That END reports every GOTO met since
\* the last label-prefixed PROC/TASK header whose name the body's scope does not
\* hold as a label: exactly one error, positioned at the GOTO's label token, if
\* that token belongs to the analysed document, and none if it comes from an
\* included file.  A GOTO whose label the body defines, before or after the
\* GOTO, gets no error.
C11_GotoErrorAtLabel ==
  [][/\ BodyEnd =>
          \A l \in GotoLabels(LastHeader) :
            IF LabelDefined(tokens[l].value, Top(blockStack).token) \/ ~InDocument(l)
            THEN GotoErrorsOf(tokens[l].value, l) = {}
            ELSE Cardinality(GotoErrorsOf(tokens[l].value, l)) = 1
     /\ BodyEnd =>
          \A k \in 1..Len(Emitted) :
            Emitted[k].message[1] = "GOTO: Label nicht definiert" =>
              Emitted[k].token \in GotoLabels(LastHeader)
     /\ ~BodyEnd => ~HasMessage(Emitted, "GOTO: Label nicht definiert")]_vars

\* the body P: PROC; GOTO L; END; is closed: one error, at the GOTO's L
C11_Witness ==
  /\ blockStack = << >>
  /\ pc = "run"
  /\ \E k \in 1..Len(diagnostics) :
       /\ diagnostics[k].message = MsgGotoUndefined("L")
       /\ IsKeywordAt(diagnostics[k].token - 1, {"GOTO"})
       /\ i > diagnostics[k].token + 1
       /\ Cardinality({m \in 1..Len(diagnostics) :
                         diagnostics[m].token = diagnostics[k].token}) = 1

\* ---------------------------------------------------------------------------
\* an END or MODEND is accepted and takes the top scope off the scope stack
PopsScope ==
  /\ AtKeyword({"END", "MODEND"})
  /\ Len(scopeStack') = Len(scopeStack) - 1

\* the END of a PROC/TASK body marks the labels of its GOTOs used before the
\* scope is swept (2130-2139)
MarkedByEnd(sym) ==
  /\ AtKeyword({"END"})
  /\ Top(blockStack).keyword \in {"PROC", "PROCEDURE", "TASK"}
  /\ Len(scopeStack) = 2
  /\ sym.typename = "@LABEL"
  /\ \E g \in 1..Len(gotoList) : tokens[gotoList[g]].value = sym.name

UsedAtSweep(sym) == sym.used \/ MarkedByEnd(sym)

UnusedReports(sym, severity) ==
  Cardinality({k \in 1..Len(Emitted) :
                 /\ Emitted[k].severity = severity
                 /\ Emitted[k].token = sym.nameToken
                 /\ Emitted[k].message =
                      IF severity = "hint" THEN MsgInactive ELSE MsgUnused(sym.name)})

\* C17 as stated: when END or MODEND pops a scope, every symbol of that scope
\* that is neither used nor GLOBAL gets the unused-identifier warning and a
\* hint, and no other symbol of the scope gets them.
C17_PoppedScopeSwept ==
  [][PopsScope
     => \A k \in 1..Len(Top(scopeStack)) :
          LET sym == Top(scopeStack)[k] IN
          IF ~UsedAtSweep(sym) /\ ~sym.global
          THEN UnusedReports(sym, "warning") = 1 /\ UnusedReports(sym, "hint") >= 1
          ELSE UnusedReports(sym, "warning") = 0]_vars

\* C17 as the code has it: the warning and the hint are reported for the
\* symbols declared in the document analysed; an unused symbol whose name
\* stands in an included file is not reported.
C17_PoppedScopeSweptOfDocument ==
  [][PopsScope
     => \A k \in 1..Len(Top(scopeStack)) :
          LET sym == Top(scopeStack)[k] IN
          IF ~UsedAtSweep(sym) /\ ~sym.global /\ InDocument(sym.nameToken)
          THEN UnusedReports(sym, "warning") = 1 /\ UnusedReports(sym, "hint") >= 1
          ELSE UnusedReports(sym, "warning") = 0 /\ UnusedReports(sym, "hint") = 0]_vars

\* a program with one END has been analysed to its end: the END has closed a
\* BEGIN block with a DCL of X and has reported X, which is not used
C17_Witness ==
  /\ pc = "run"
  /\ i > Len(tokens)
  /\ Len(scopeStack) = 1
  /\ blockStack = << >>
  /\ \E b, d, e \in 1..Len(tokens) :
       /\ b < d /\ d < e
       /\ tokens[b].value = "BEGIN" /\ tokens[d].value = "DCL" /\ tokens[e].value = "END"
       /\ \A m \in 1..Len(tokens) : tokens[m].value = "END" => m = e
       /\ \E k \in 1..Len(diagnostics) :
            /\ diagnostics[k].severity = "warning"
            /\ diagnostics[k].message = MsgUnused("X")
            /\ diagnostics[k].token = d + 1

\* ---------------------------------------------------------------------------
\* the step that ends the pass behind the last token
AtEndOfStream == pc = "run" /\ i > Len(tokens) /\ pc' = "done"

\* the tokens for which the step reports an unused identifier
UnusedWarned ==
  {Emitted[k].token : k \in {m \in 1..Len(Emitted) :
                               /\ Emitted[m].severity = "warning"
                               /\ Emitted[m].message[1] = MsgUnused("")[1]}}

UnusedIn(scope) ==
  {scope[k].nameToken : k \in {m \in 1..Len(scope) :
                                 /\ ~scope[m].used /\ ~scope[m].global
                                 /\ InDocument(scope[m].nameToken)}}

\* C18: when the stream ends and no MODEND has been accepted, the unused
\* symbols are looked for once, in the global scope (scopeStack[0] of the
\* code), whatever blocks are open; after an accepted MODEND they are not
\* looked for at the end.
C18_EofSweepsGlobalScope ==
  [][AtEndOfStream
     => UnusedWarned = IF modendFound THEN {} ELSE UnusedIn(scopeStack[1])]_vars

\* ---------------------------------------------------------------------------
\* the symbols of all scopes
AllSymbols(ss) == UNION {{ss[k][m] : m \in 1..Len(ss[k])} : k \in 1..Len(ss)}

\* the symbol was made by a header NAME : TASK / PROC, not by DCL or SPC
ByHeader(sym) ==
  /\ sym.nameToken < Len(tokens)
  /\ IsSymbolAt(findNextCodeToken(tokens, sym.nameToken), ":")

\* the symbols a DCL or SPC statement adds to the scope on top
AddedByDclSpc ==
  IF AtKeyword({"DCL", "DECLARE", "SPC", "SPECIFY"}) /\ Len(scopeStack') = Len(scopeStack)
  THEN {sym \in AllSymbols(<< Top(scopeStack') >>) :
          \A old \in AllSymbols(<< Top(scopeStack) >>) : old.name # sym.name}
  ELSE {}

VisibleOutside(sym) ==
  sym.global \/ sym.typename \in {"MODULE", "SHELLMODULE", "TASK"}

RequiredCloser(kw) ==
  CHOOSE closer \in {"END", "FIN", "MODEND"} : kw \in END_KEYWORD_MAP(closer)

NotClosedWarnings(frame) ==
  {k \in 1..Len(Emitted) : /\ Emitted[k].severity = "warning"
                           /\ Emitted[k].message[1] = MsgNotClosed("IF")[1]
                           /\ Emitted[k].token = frame.token}

\* C20: at the end of the stream every open frame is reported once, at the
\* token that opened it, and the warning names the closer the frame needs:
\* MODEND for MODULE / SHELLMODULE, END for TASK / PROC / BEGIN / REPEAT, FIN
\* for IF, CASE and the frame that ELSE has opened again.
C20_OpenBlocksNameCloser ==
  [][AtEndOfStream
     => /\ \A k \in 1..Len(blockStack) :
             /\ Cardinality(NotClosedWarnings(blockStack[k])) = 1
             /\ \A w \in NotClosedWarnings(blockStack[k]) :
                  Emitted[w].message =
                    << MsgNotClosed("IF")[1], blockStack[k].keyword,
                       RequiredCloser(blockStack[k].keyword) >>
        /\ Cardinality({k \in 1..Len(Emitted) :
                          Emitted[k].message[1] = MsgNotClosed("IF")[1]})
             = Len(blockStack)]_vars

(***************************************************************************)
(* The document cache: validateTextDocument and the events that start it   *)
(***************************************************************************)
MaxEvents == 5

\* the settings a client can send
Settings == {1, 2}

\* the contents a document takes; the second one has its accepted END on the
\* first line
Contents == {"BEGIN;\nEND;", "BEGIN; END;", "MODULE M;"}

\* analyze() leaves by a TypeError when an accepted closer stands on line 0:
\* it reads lineOffsets[t.line - 1].endOfLineColumn (2157)
AnalyzeThrows(text) == text = "BEGIN; END;"

\* the object analyze() returns (2641-2646): every part belongs to one run
analyze(text, settings) ==
  [tokens |-> << text, settings >>, diagnostics |-> << text, settings >>,
   scopeStack |-> << text, settings >>, foldingRanges |-> << text, settings >>]

\* the part of the state that validateTextDocument reads and writes
Server ==
  [globalSettings |-> globalSettings, documentSettings |-> documentSettings,
   promises |-> promises, awaiting |-> awaiting,
   documentTokenCache |-> documentTokenCache,
   publishedDiagnostics |-> publishedDiagnostics]

Install(st) ==
  /\ globalSettings' = st.globalSettings
  /\ documentSettings' = st.documentSettings
  /\ promises' = st.promises
  /\ awaiting' = st.awaiting
  /\ documentTokenCache' = st.documentTokenCache
  /\ publishedDiagnostics' = st.publishedDiagnostics

\* the text of the document object of the latest open
CurrentText == docText[Len(docText)]

\* validateTextDocument behind its await (2658-2664): an exception of analyze
\* rejects the promise of the validation and nothing is stored or sent
Resume(st, text, settings) ==
  IF AnalyzeThrows(text) THEN st
  ELSE [st EXCEPT !.documentTokenCache = analyze(text, settings),
                  !.publishedDiagnostics = analyze(text, settings).diagnostics]

\* getDocumentSettings with the configuration capability (322-331): the cached
\* promise of the document, or a new request to the client
getDocumentSettings(st) ==
  IF st.documentSettings # 0 THEN st
  ELSE [st EXCEPT !.documentSettings = Len(st.promises) + 1,
                  !.promises = Append(@, [resolved |-> FALSE, value |-> defaultSettings])]

\* validateTextDocument(textDocument) for the document object doc: without the
\* capability, and on a promise that is resolved, the rest runs before the
\* next event; else the validation is suspended on the promise
validateTextDocument(st, doc, text) ==
  IF ~hasConfigurationCapability THEN Resume(st, text, st.globalSettings)
  ELSE LET st1 == getDocumentSettings(st)
           p == st1.documentSettings
       IN IF st1.promises[p].resolved
            THEN Resume(st1, text, st1.promises[p].value)
            ELSE [st1 EXCEPT !.awaiting = Append(@, [promise |-> p, doc |-> doc])]

\* documents.onDidOpen (3177-3180): a new document object
onDidOpen ==
  /\ ~docOpen
  /\ events < MaxEvents
  /\ \E text \in Contents :
       /\ docText' = Append(docText, text)
       /\ Install(validateTextDocument(Server, Len(docText) + 1, text))
  /\ docOpen' = TRUE
  /\ events' = events + 1
  /\ UNCHANGED << hasConfigurationCapability, clientSettings, observed, hoverResponse, passVars, lexVars, fsVars >>

\* documents.onDidChangeContent (3188-3190): the document object has the new text
onDidChangeContent ==
  /\ docOpen
  /\ events < MaxEvents
  /\ \E text \in Contents \ {CurrentText} :
       /\ docText' = [docText EXCEPT ![Len(docText)] = text]
       /\ Install(validateTextDocument(Server, Len(docText), text))
  /\ events' = events + 1
  /\ UNCHANGED << hasConfigurationCapability, clientSettings, docOpen, observed, hoverResponse, passVars,
                  lexVars, fsVars >>

\* documents.onDidClose (3182-3186)
onDidClose ==
  /\ docOpen
  /\ events < MaxEvents
  /\ docOpen' = FALSE
  /\ documentTokenCache' = NoEntry
  /\ documentSettings' = 0
  /\ events' = events + 1
  /\ UNCHANGED << hasConfigurationCapability, globalSettings, clientSettings, promises,
                  awaiting, docText, publishedDiagnostics, observed, hoverResponse, passVars, lexVars, fsVars >>

\* connection.onDidChangeConfiguration (3193-3206)
onDidChangeConfiguration ==
  /\ events < MaxEvents
  /\ \E s \in Settings \ {clientSettings} :
       /\ clientSettings' = s
       /\ \E st \in {IF hasConfigurationCapability
                       THEN [Server EXCEPT !.documentSettings = 0]
                       ELSE [Server EXCEPT !.globalSettings = s]} :
            Install(IF docOpen THEN validateTextDocument(st, Len(docText), CurrentText)
                               ELSE st)
  /\ events' = events + 1
  /\ UNCHANGED << hasConfigurationCapability, docOpen, docText, observed, hoverResponse, passVars, lexVars, fsVars >>

\* the validations suspended on promise p, in the order of their await
AwaitingOn(p) == SelectSeq(awaiting, LAMBDA a : a.promise = p)

RECURSIVE ResumeAll(_, _, _)
ResumeAll(st, as, settings) ==
  IF as = << >> THEN st
  ELSE ResumeAll(Resume(st, docText[Head(as).doc], settings), Tail(as), settings)

\* the client answers a getConfiguration request with the settings it holds;
\* the answers come in any order, and the validations that await the promise
\* run one behind the other, each on the text of its document object
ConfigurationArrives ==
  /\ \E p \in 1..Len(promises) :
       /\ ~promises[p].resolved
       /\ Install(ResumeAll(
            [Server EXCEPT !.promises[p] = [resolved |-> TRUE, value |-> clientSettings],
                           !.awaiting = SelectSeq(@, LAMBDA a : a.promise # p)],
            AwaitingOn(p), clientSettings))
  /\ UNCHANGED << hasConfigurationCapability, clientSettings, docOpen, docText, observed,
                  events, hoverResponse, passVars, lexVars, fsVars >>

\* connection.onHover (2704), onDefinition (2780), onFoldingRanges (2822) and
\* semanticTokens.on (3014): each reads documentTokenCache.get(uri) once
Request ==
  /\ observed' = documentTokenCache
  /\ UNCHANGED << hasConfigurationCapability, globalSettings, clientSettings,
                  documentSettings, promises, awaiting, docOpen, docText,
                  documentTokenCache, publishedDiagnostics, events, hoverResponse, passVars,
                  lexVars, fsVars >>

\* onInitialize fixes the capability (260-263)
InitServer ==
  /\ hasConfigurationCapability \in BOOLEAN
  /\ globalSettings = defaultSettings
  /\ clientSettings \in Settings
  /\ documentSettings = 0
  /\ promises = << >>
  /\ awaiting = << >>
  /\ docOpen = FALSE
  /\ docText = << >>
  /\ documentTokenCache = NoEntry
  /\ publishedDiagnostics = << >>
  /\ observed = NoEntry
  /\ events = 0
  /\ hoverResponse = NoHover
  /\ PassIdle
  /\ LexIdle
  /\ FsIdle

NextServer ==
  \/ onDidOpen
  \/ onDidChangeContent
  \/ onDidClose
  \/ onDidChangeConfiguration
  \/ ConfigurationArrives
  \/ Request

SpecServer == InitServer /\ [][NextServer]_vars

(***************************************************************************)
(* Properties of the document cache                                        *)
(***************************************************************************)
\* the settings the server was last told of
LatestSettings ==
  IF hasConfigurationCapability THEN clientSettings ELSE globalSettings

\* the results analyze() can return
WholeResults ==
  {analyze(text, s) : text \in Contents, s \in Settings \cup {defaultSettings}}

\* no validation is suspended
AllValidated == awaiting = << >>

\* C15: every open or change replaces the cache entry of the document by the
\* complete result of a new analysis: a request reads a whole result or none,
\* never parts of two, and once no validation is left to complete the entry
\* of an open document is the analysis of its latest content under the latest
\* settings
C15_CacheFollowsDocument ==
  /\ observed \in WholeResults \cup {NoEntry}
  /\ docOpen /\ AllValidated
       => documentTokenCache = analyze(CurrentText, LatestSettings)

(***************************************************************************)
(* Lexical errors                                                          *)
(***************************************************************************)
\* the string at the offset ends at the end of its line, without its quote
Unterminated(f) ==
  At(f.text, SpanUntil(f.text, f.offset + 1, {"'"})) # "'"

\* the scan of the document's own text stands at a lexical error
AtLexicalError ==
  /\ LexRunning
  /\ Top(callStack).uri = DocUri
  /\ \/ Branch(Top(callStack)) \in {"illegal", "unknown"}
     \/ Branch(Top(callStack)) = "string" /\ Unterminated(Top(callStack))
     \/ /\ Branch(Top(callStack)) = "define"
        /\ HasDefine(DefineParse(Top(callStack).text, Top(callStack).offset).name)

\* the scan of the document's own text stands at an #undef of no macro
AtUndefOfUndefined ==
  /\ LexRunning
  /\ Top(callStack).uri = DocUri
  /\ Branch(Top(callStack)) = "undef"
  /\ ~HasDefine(ParseNamed(Top(callStack).text, Top(callStack).offset, W_undef).name)

\* the step adds a diagnostic of the severity at one of the tokens it adds
Reports(severity) ==
  \E k \in 1..Len(LexEmitted) :
    /\ LexEmitted[k].severity = severity
    /\ \E n \in 1..Len(NewTokens) : NewTokens[n] = LexEmitted[k].token

\* C22: every lexical error of the document, an illegal character, a string
\* that ends with its line, an unknown directive or the #define of a macro
\* that is defined, adds an error to the diagnostics, and the #undef of a
\* name that is no macro adds a warning
C22_LexicalErrorsReported ==
  [][/\ AtLexicalError => Reports("error")
     /\ AtUndefOfUndefined => Reports("warning")]_vars

(***************************************************************************)
(* PROC and TASK headers                                                   *)
(***************************************************************************)
\* the name token of the header name: PROC / name: TASK at i, 0 when the
\* keyword has no such prefix
HeaderName ==
  LET prev == findPreviousCodeToken(tokens, i)
      prev2 == IF prev # 0 THEN findPreviousCodeToken(tokens, prev) ELSE 0
  IN IF IsSymbolAt(prev, ":") /\ prev2 # 0 /\ tokens[prev2].type = "identifier"
     THEN prev2 ELSE 0

\* the pass stands at the keyword of a label-prefixed PROC or TASK header
AtHeader == AtKeyword({"PROC", "PROCEDURE", "TASK"}) /\ HeaderName # 0

\* the step declares the name in the global scope and pushes one frame of the
\* keyword and one scope
HeaderAccepted ==
  /\ blockStack' = Append(blockStack, Frame(tokens[i].value, i))
  /\ Len(scopeStack') = Len(scopeStack) + 1
  /\ \A k \in 2..Len(scopeStack) : scopeStack'[k] = scopeStack[k]
  /\ \E n \in 1..Len(scopeStack'[1]) :
       /\ scopeStack'[1][n].name = tokens[HeaderName].value
       /\ scopeStack'[1][n].nameToken = HeaderName
       /\ scopeStack'[1][n].typename =
            IF tokens[i].value = "TASK" THEN "TASK" ELSE "PROCEDURE"

\* the step leaves both stacks as they are and reports the error at the name
HeaderRejected ==
  /\ UNCHANGED << blockStack, scopeStack >>
  /\ Len(Emitted) = 1
  /\ Emitted[1].severity = "error"
  /\ Emitted[1].token = HeaderName

\* as HeaderRejected, the error being kept for a name of the document only
HeaderRejectedOfDocument ==
  /\ UNCHANGED << blockStack, scopeStack >>
  /\ IF InDocument(HeaderName)
     THEN /\ Len(Emitted) = 1
          /\ Emitted[1].severity = "error"
          /\ Emitted[1].token = HeaderName
     ELSE Emitted = << >>

\* C23: a label-prefixed PROC or TASK header is accepted only while exactly
\* one frame, that of the module, is open; at any other depth of the block
\* stack it is an error at the name and no stack changes
C23_HeaderOnlyInModuleFrame ==
  [][AtHeader =>
       IF Len(blockStack) = 1 /\ blockStack[1].keyword \in {"MODULE", "SHELLMODULE"}
       THEN HeaderAccepted ELSE HeaderRejected]_vars

\* C23 as the code has it: the header is accepted while the global scope is
\* the only open scope, whatever frames are open (none, or a module and the
\* IF and CASE frames in it, which open no scope); with any further scope
\* open it changes no stack and is an error at the name, the error being
\* kept when the name is a token of the document
C23_HeaderOnlyInGlobalScope ==
  [][AtHeader =>
       IF Len(scopeStack) = 1 THEN HeaderAccepted ELSE HeaderRejectedOfDocument]_vars

\* a header was accepted with no frame open, its frame being the only one,
\* and a header was rejected before it
C23_Witness ==
  /\ Len(scopeStack) = 2
  /\ Len(blockStack) = 1
  /\ Top(blockStack).keyword \in {"PROC", "PROCEDURE", "TASK"}
  /\ HasMessage(diagnostics, "nur global erlaubt")

(***************************************************************************)
(* Module frames                                                           *)
(***************************************************************************)
\* C24: a MODULE or SHELLMODULE frame is the bottom frame of the block stack:
\* there are never two of them and never one above another frame
C24_OneModuleFrameAtBottom ==
  \A k \in 1..Len(blockStack) :
    blockStack[k].keyword \in {"MODULE", "SHELLMODULE"} => k = 1

(***************************************************************************)
(* ELSE                                                                    *)
(***************************************************************************)
\* the pass stands at an ELSE and the top frame has the keyword
ElseOn(keyword) ==
  /\ AtKeyword({"ELSE"})
  /\ blockStack # << >>
  /\ Top(blockStack).keyword = keyword

\* the step replaces the top frame by a frame of the ELSE, which FIN closes
Reopened ==
  /\ Len(blockStack') = Len(blockStack)
  /\ Pop(blockStack') = Pop(blockStack)
  /\ Top(blockStack').token = i
  /\ Top(blockStack').keyword \in PermittedOpeners("FIN")
  /\ scopeStack' = scopeStack

\* C25: an ELSE on an IF frame closes the frame and opens a new one at the
\* same depth, which FIN closes: the length of the block stack and the scope
\* stack are the same behind the ELSE as before it; an ELSE on the frame of
\* an ELSE is an unexpected ELSE and leaves the stacks as they are
C25_ElseReopensFrame ==
  [][/\ ElseOn("IF") => Reopened
     /\ ElseOn("ELSE") =>
          /\ UNCHANGED << blockStack, scopeStack >>
          /\ InDocument(i) => OneErrorAtCloser]_vars

(***************************************************************************)
(* Loops                                                                   *)
(***************************************************************************)
\* the token begins a statement: it is the first one, or it stands behind a
\* semicolon or behind a keyword that opens a block or a branch
StatementStart(f) ==
  \/ f = 1
  \/ IsSymbolAt(f - 1, ";")
  \/ IsKeywordAt(f - 1, {"REPEAT", "BEGIN", "THEN", "ELSE"})

\* the token is a FOR that begins a statement, with a name behind it
ForHeaderAt(f) ==
  /\ StatementStart(f)
  /\ tokens[f].type = "keyword" /\ tokens[f].value = "FOR"
  /\ findNextCodeToken(tokens, f) # 0
  /\ tokens[findNextCodeToken(tokens, f)].type = "identifier"

\* the REPEAT at r belongs to a FOR header: the header stands before it with
\* no semicolon, no FOR and no other REPEAT between the two
OwnHeader(r) ==
  \E f \in 1..(r - 1) :
    /\ ForHeaderAt(f)
    /\ \A m \in (f + 1)..(r - 1) :
         ~(IsSymbolAt(m, ";") \/ (tokens[m].type = "keyword"
                                  /\ tokens[m].value \in {"FOR", "REPEAT"}))

\* the step pushes one REPEAT frame of the token at i and the scope
PushesLoop(scope) ==
  /\ blockStack' = Append(blockStack, Frame("REPEAT", i))
  /\ scopeStack' = Append(scopeStack, scope)

\* C26: every loop opens one frame and one scope: a FOR with its name pushes
\* a REPEAT frame and a scope that holds the loop variable as FIXED, the
\* REPEAT of that header pushes nothing, and a REPEAT with no FOR header of
\* its own pushes one frame and one empty scope
C26_OneFramePerLoop ==
  [][/\ (Running /\ ForHeaderAt(i)) =>
          PushesLoop(<< createIdentifier(findNextCodeToken(tokens, i),
                                         tokens[findNextCodeToken(tokens, i)].value,
                                         "FIXED", FALSE) >>)
     /\ AtKeyword({"REPEAT"}) =>
          IF OwnHeader(i) THEN UNCHANGED << blockStack, scopeStack >>
          ELSE PushesLoop(<< >>)]_vars

(***************************************************************************)
(* Declarations of a name that exists                                      *)
(***************************************************************************)
\* the pass stands at a declaration keyword whose statement has its semicolon
AtDeclaration(kws) == AtKeyword(kws) /\ findNextSemicolonToken(tokens, i) # 0

\* the symbols the statement at i declares
Declared ==
  parseSpcDclTokens(tokens, i + 1, findNextSemicolonToken(tokens, i) - 1).syms

\* the symbols of the current scope stay as they are, at their places
ExistingKept ==
  /\ Len(Top(scopeStack')) >= Len(Top(scopeStack))
  /\ \A n \in 1..Len(Top(scopeStack)) : Top(scopeStack')[n] = Top(scopeStack)[n]

\* the step reports the error at the name token
ExistsErrorAt(tok) ==
  \E k \in 1..Len(Emitted) :
    /\ Emitted[k].severity = "error"
    /\ Emitted[k].token = tok

\* what the claim says of one declared symbol
Redeclaration(sym) ==
  IF ScopeHas(Top(scopeStack), sym.name)
  THEN /\ ExistingKept
       /\ InDocument(sym.nameToken) => ExistsErrorAt(sym.nameToken)
  ELSE /\ ScopeHas(Top(scopeStack'), sym.name)
       /\ Top(scopeStack')[ScopeIndex(Top(scopeStack'), sym.name)].nameToken > i
       /\ Pop(scopeStack') = Pop(scopeStack)

\* C27: a DCL or SPC of a name that the current scope holds is an error at
\* the new name (for a name of the document) and leaves the symbol of the
\* scope as it is; a name that only an outer scope holds is declared in the
\* current scope and the outer scope is left as it is
C27_RedeclarationIsError ==
  [][AtDeclaration({"DCL", "DECLARE", "SPC", "SPECIFY"}) =>
       \A k \in 1..Len(Declared) : Redeclaration(Declared[k])]_vars

(***************************************************************************)
(* Label definitions                                                       *)
(***************************************************************************)
\* the pass stands at a name with ':' behind it and no PROC or TASK behind that
AtLabelDefinition ==
  /\ Running
  /\ tokens[i].type = "identifier"
  /\ IsSymbolAt(findNextCodeToken(tokens, i), ":")
  /\ ~IsKeywordAt(findNextCodeToken(tokens, findNextCodeToken(tokens, i)),
                  {"PROC", "PROCEDURE", "TASK"})

BodyKeywords == {"PROC", "PROCEDURE", "TASK"}

\* a PROC or TASK frame is open
InBody == \E k \in 1..Len(blockStack) : blockStack[k].keyword \in BodyKeywords

\* the innermost open PROC or TASK frame
BodyFrame ==
  CHOOSE k \in 1..Len(blockStack) :
    /\ blockStack[k].keyword \in BodyKeywords
    /\ \A m \in (k + 1)..Len(blockStack) : blockStack[m].keyword \notin BodyKeywords

\* the scope that frame opened: the global scope and one scope for each frame
\* up to it that opens a scope
BodyScope ==
  1 + Cardinality({m \in 1..BodyFrame : blockStack[m].keyword \in ScopeOpeners})

\* the step puts the label of the token at i into the scope of that level and
\* leaves the other scopes as they are
LabelInto(level) ==
  /\ Len(scopeStack') = Len(scopeStack)
  /\ level <= Len(scopeStack)
  /\ \A k \in 1..Len(scopeStack) : k # level => scopeStack'[k] = scopeStack[k]
  /\ ScopeHas(scopeStack'[level], tokens[i].value)
  /\ scopeStack'[level][ScopeIndex(scopeStack'[level], tokens[i].value)] =
       createIdentifier(i, tokens[i].value, "@LABEL", FALSE)
  /\ Emitted = << >>

LabelError ==
  Emitted = << [severity |-> "error", message |-> MsgLabelOutside(tokens[i].value),
                token |-> i] >>

\* C28: a label definition inside a PROC or TASK body goes into the scope
\* directly inside that PROC or TASK, whatever blocks are open in the body;
\* with the global scope alone open it is an error and declares nothing
C28_LabelIntoBodyScope ==
  [][AtLabelDefinition =>
       IF InBody THEN LabelInto(BodyScope)
       ELSE Len(scopeStack) = 1 => UNCHANGED scopeStack /\ LabelError]_vars

\* C28 with the error of a label outside every scope kept for a label of the
\* document only: a label of an included file declares nothing and is not
\* reported
C28_LabelIntoBodyScopeOfDocument ==
  [][AtLabelDefinition =>
       IF InBody THEN LabelInto(BodyScope)
       ELSE Len(scopeStack) = 1 =>
              /\ UNCHANGED scopeStack
              /\ IF InDocument(i) THEN LabelError ELSE Emitted = << >>]_vars

\* the label L was defined inside a block of the body of P and stands in the
\* scope of P, not in the scope of the block
C28_Witness ==
  /\ Len(scopeStack) >= 3
  /\ InBody
  /\ ScopeHas(scopeStack[2], "L")
  /\ scopeStack[2][ScopeIndex(scopeStack[2], "L")].typename = "@LABEL"
  /\ blockStack[Len(blockStack)].token
       < scopeStack[2][ScopeIndex(scopeStack[2], "L")].nameToken
  /\ ~ScopeHas(scopeStack[3], "L")

(***************************************************************************)
(* Identifier uses                                                         *)
(***************************************************************************)
\* the identifier the step resolves: the identifier under the index, or the
\* identifier behind CALL; 0 if the step resolves none
UseToken ==
  IF AtReference THEN i
  ELSE IF AtKeyword({"CALL"}) /\ IsIdentifierAt(findNextCodeToken(tokens, i))
  THEN findNextCodeToken(tokens, i)
  ELSE 0

\* the use stands in call position or is the target of CALL
CallLike ==
  \/ AtKeyword({"CALL"})
  \/ IsSymbolAt(findNextCodeToken(tokens, UseToken), "(")

\* the symbol of the innermost open scope that holds the name
NearestSymbol(name) ==
  LET n == Nearest(scopeStack, name) IN scopeStack[n][ScopeIndex(scopeStack[n], name)]

\* the step has linked the use to the nearest symbol and marked it used
LinkedAndUsed(tok) ==
  LET name == tokens[tok].value
      n == Nearest(scopeStack, name)
  IN /\ links'[tok] = NearestSymbol(name).nameToken
     /\ scopeStack'[n][ScopeIndex(scopeStack[n], name)].used

NotDefinedMessages(name) == {MsgNotDefined(name), MsgCallNoProc(name)}

\* exactly one diagnostic, an error that tells the name is not defined, at tok
OneNotDefinedError(tok) ==
  /\ Len(Emitted) = 1
  /\ Emitted[1].severity = "error"
  /\ Emitted[1].token = tok
  /\ Emitted[1].message \in NotDefinedMessages(tokens[tok].value)

\* C29: an identifier use whose name an open scope holds is linked to that
\* symbol, which is marked used; a use of a name no open scope holds is
\* linked to the builtin entry, without a diagnostic, if it is call-like and
\* the name is a builtin procedure; every other use gets exactly one 'not
\* defined' error at its token.
C29_UseResolves ==
  [][UseToken # 0 =>
       LET name == tokens[UseToken].value IN
       IF Holders(scopeStack, name) # {} THEN LinkedAndUsed(UseToken)
       ELSE IF CallLike /\ name \in BUILTIN_PROCS
       THEN links'[UseToken] = -1 /\ Emitted = << >>
       ELSE OneNotDefinedError(UseToken)]_vars

\* C29 for the uses that are not call-like: the lookup asks for no kind
C29_PlainUseResolves ==
  [][UseToken # 0 /\ ~CallLike /\ InDocument(UseToken) =>
       LET name == tokens[UseToken].value IN
       IF Holders(scopeStack, name) # {} THEN LinkedAndUsed(UseToken)
       ELSE OneNotDefinedError(UseToken)]_vars

(***************************************************************************)
(* TASK-control statements                                                 *)
(***************************************************************************)
AtTaskCtrl == AtKeyword(DOMAIN TASK_CTRL_KEYWORDS)
TaskOptions == TASK_CTRL_KEYWORDS[tokens[i].value]

\* the task name of the statement under the index, 0 if it has none
TaskName ==
  IF IsIdentifierAt(findNextCodeToken(tokens, i)) THEN findNextCodeToken(tokens, i)
  ELSE 0

\* the token behind the keyword and the name
BehindName == findNextCodeToken(tokens, IF TaskName # 0 THEN TaskName ELSE i)

\* the PRIO / PRIORITY keyword of the statement, 0 if it has no such clause
PrioClause == IF IsKeywordAt(BehindName, {"PRIO", "PRIORITY"}) THEN BehindName ELSE 0

TaskResolves ==
  TaskName # 0 /\ lookupSymbol(scopeStack, tokens[TaskName].value, "TASK").found

\* the statement ends with ';': behind the clause if it has one, else at once
EndsWithSemicolon ==
  IF PrioClause # 0 THEN findNextSemicolonToken(tokens, PrioClause) # 0
  ELSE IsSymbolAt(BehindName, ";")

\* the statement follows the rule of its keyword
FollowsRule ==
  /\ TaskName # 0 => TaskResolves /\ TaskOptions.task # "no"
  /\ TaskName = 0 => TaskOptions.task # "yes"
  /\ PrioClause # 0 => TaskOptions.prio # "no"
  /\ EndsWithSemicolon

ErrorIn(diags) == \E k \in 1..Len(diags) : diags[k].severity = "error"

\* C30: a TASK-control statement whose name does not resolve to a TASK, that
\* lacks a mandatory name, has a forbidden name or a forbidden PRIO clause
\* reports an error; a statement that follows the rule of its keyword and
\* ends with ';' reports none.
C30_TaskCtrlTable ==
  [][AtTaskCtrl =>
       /\ TaskName # 0 /\ ~TaskResolves => ErrorsAt(Emitted, TaskName) # {}
       /\ TaskName # 0 /\ TaskOptions.task = "no" => ErrorsAt(Emitted, TaskName) # {}
       /\ TaskName = 0 /\ TaskOptions.task = "yes" => ErrorIn(Emitted)
       /\ PrioClause # 0 /\ TaskOptions.prio = "no" =>
            ErrorsAt(Emitted, PrioClause) # {}
       /\ FollowsRule => ~ErrorIn(Emitted)]_vars

\* the token an error of the statement is reported at belongs to the document
ErrorTokenInDocument(tok) == tok # 0 /\ InDocument(tok)

\* C30 for statements whose tokens belong to the analysed document and that
\* are not cut off at the end of the text
C30_TaskCtrlTableOfDocument ==
  [][AtTaskCtrl =>
       /\ TaskName # 0 /\ ~TaskResolves /\ InDocument(TaskName) =>
            ErrorsAt(Emitted, TaskName) # {}
       /\ TaskName # 0 /\ TaskOptions.task = "no" /\ InDocument(TaskName) =>
            ErrorsAt(Emitted, TaskName) # {}
       /\ TaskName = 0 /\ TaskOptions.task = "yes"
            /\ ErrorTokenInDocument(findNextCodeToken(tokens, i)) => ErrorIn(Emitted)
       /\ PrioClause # 0 /\ TaskOptions.prio = "no" /\ InDocument(PrioClause) =>
            ErrorsAt(Emitted, PrioClause) # {}
       /\ FollowsRule => ~ErrorIn(Emitted)]_vars

(***************************************************************************)
(* GOTOs and labels of a body                                              *)
(***************************************************************************)
\* the label tokens the END of a body checks
CheckedGotos == {gotoList[k] : k \in 1..Len(gotoList)}

\* the labels the body has declared: the label symbols of the body's scope
BodyLabels ==
  IF Len(scopeStack) < 2 THEN {}
  ELSE {k \in 1..Len(scopeStack[2]) : scopeStack[2][k].typename = "@LABEL"}

TargetedBy(gotos, name) == \E l \in gotos : tokens[l].value = name

LabelUnusedReports(sym) ==
  {k \in 1..Len(Emitted) : /\ Emitted[k].severity = "warning"
                           /\ Emitted[k].message = MsgLabelUnused(sym.name)
                           /\ Emitted[k].token = sym.nameToken}

\* C31: the END of a PROC/TASK body checks exactly the GOTOs that stand in the
\* body; every label of the body that none of them targets is reported
\* unused, every label that one of them targets is not.
C31_GotosPerBody ==
  [][BodyEnd =>
       /\ CheckedGotos = GotoLabels(Top(blockStack).token)
       /\ \A k \in BodyLabels :
            LET sym == scopeStack[2][k] IN
            IF TargetedBy(GotoLabels(Top(blockStack).token), sym.name)
            THEN LabelUnusedReports(sym) = {}
            ELSE LabelUnusedReports(sym) # {}]_vars

\* a label-prefixed PROC/TASK header stands inside the body that is closed
HeaderInBody == LastHeader # Top(blockStack).token

\* C31 as the code has it: the GOTOs checked are those met since the last
\* label-prefixed header, which is the header of the body unless a (rejected)
\* header stands inside the body; a label that none of them targets and that
\* no statement has referenced is reported unused if its token belongs to the
\* analysed document.
C31_GotosSinceLastHeader ==
  [][BodyEnd =>
       /\ CheckedGotos = GotoLabels(LastHeader)
       /\ ~HeaderInBody => CheckedGotos = GotoLabels(Top(blockStack).token)
       /\ \A k \in BodyLabels :
            LET sym == scopeStack[2][k] IN
            IF TargetedBy(CheckedGotos, sym.name) \/ sym.used \/ ~InDocument(sym.nameToken)
            THEN LabelUnusedReports(sym) = {}
            ELSE Cardinality(LabelUnusedReports(sym)) = 1]_vars

(***************************************************************************)
(* Nested conditionals                                                     *)
(***************************************************************************)
\* the lines of a text
RECURSIVE SplitLines(_)
SplitLines(text) ==
  IF \A k \in 1..Len(text) : text[k] # "\n" THEN << text >>
  ELSE LET n == CHOOSE k \in 1..Len(text) :
                  text[k] = "\n" /\ \A m \in 1..(k - 1) : text[m] # "\n"
       IN << SubSeq(text, 1, n - 1) >> \o SplitLines(SubSeq(text, n + 1, Len(text)))

ConditionalLines == {lnIfdef, lnIfndef, lnElse, lnEndif}

\* the conditionals as nested branches: selected holds, per open conditional,
\* whether the branch the text stands in is the selected one, elseSeen whether
\* its #else was met, macros the names defined by the lines of selected
\* branches, balanced whether every #else and #endif had its #ifdef
NoBranches ==
  [selected |-> << >>, elseSeen |-> << >>, macros |-> {}, balanced |-> TRUE]

Selected(st) == \A k \in 1..Len(st.selected) : st.selected[k]

DefinedBy(line) ==
  CASE line \in {lnDefine, lnDefineSelf} -> << "A" >>
    [] line = lnDefineB -> << "B" >>
    [] line = lnDefineC -> << "C" >>
    [] line = lnDefineF -> << "P" >>
    [] OTHER -> << >>

BranchStep(st, line) ==
  LET depth == Len(st.selected) IN
  CASE line = lnIfdef ->
         [st EXCEPT !.selected = Append(@, << "A" >> \in st.macros),
                    !.elseSeen = Append(@, FALSE)]
    [] line = lnIfndef ->
         [st EXCEPT !.selected = Append(@, << "A" >> \notin st.macros),
                    !.elseSeen = Append(@, FALSE)]
    [] line = lnElse ->
         IF depth = 0 \/ st.elseSeen[depth] THEN [st EXCEPT !.balanced = FALSE]
         ELSE [st EXCEPT !.selected[depth] = ~@, !.elseSeen[depth] = TRUE]
    [] line = lnEndif ->
         IF depth = 0 THEN [st EXCEPT !.balanced = FALSE]
         ELSE [st EXCEPT !.selected = Pop(@), !.elseSeen = Pop(@)]
    [] line = lnUndef ->
         IF Selected(st) THEN [st EXCEPT !.macros = @ \ {<< "A" >>}] ELSE st
    [] OTHER ->
         IF Selected(st) /\ DefinedBy(line) # << >>
         THEN [st EXCEPT !.macros = @ \cup {DefinedBy(line)}] ELSE st

RECURSIVE BranchesAfter(_, _)
BranchesAfter(lines, n) ==
  IF n = 0 THEN NoBranches ELSE BranchStep(BranchesAfter(lines, n - 1), lines[n])

Balanced(lines) ==
  LET st == BranchesAfter(lines, Len(lines)) IN st.balanced /\ st.selected = << >>

\* the text is scanned by the root call alone and holds no block comment:
\* every conditional line of the text is met as a directive
PlainLines(lines) ==
  \A k \in 1..Len(lines) :
    /\ lines[k] # lnOpen
    /\ ~HasPrefix(lines[k], 0, W_include)

\* the scan of the document stands at the text of a line that is no
\* conditional line, in a balanced nesting
AtNestedLine ==
  /\ LexRunning
  /\ Len(callStack) = 1
  /\ AtText(Top(callStack))
  /\ LET lines == SplitLines(Top(callStack).text) IN
     /\ PlainLines(lines)
     /\ Balanced(lines)
     /\ lines[Top(callStack).line + 1] \notin ConditionalLines

\* the line under the scan lies in selected branches at every level
LineSelected ==
  Selected(BranchesAfter(SplitLines(Top(callStack).text), Top(callStack).line))

\* the step has consumed the rest of the line, with or without its line
\* break, and changed neither the macro table nor the files scanned
ConsumesLine ==
  /\ Len(callStack') = Len(callStack)
  /\ LET e == SpanUntil(Top(callStack).text, Top(callStack).offset, LineBreak)
     IN Top(callStack').offset \in {e, e + 1}
  /\ defines' = defines
  /\ includeStack' = includeStack

\* the state of the conditional stack follows the rule of the three directives
StackRule ==
  LET f == Top(callStack) IN
  /\ LexAt("ifdef") =>
       LET d == IfdefParse(f.text, f.offset)
           test == IF d.cmd = "#ifdef" THEN HasDefine(d.p.name) ELSE ~HasDefine(d.p.name)
       IN defineStack' =
            Append(defineStack, test /\ \A k \in 1..Len(defineStack) : defineStack[k])
  /\ LexAt("else") /\ lexPc' = "run" /\ Len(defineStack) > 1 =>
       defineStack' =
         Append(Pop(defineStack),
                ~Top(defineStack) /\ \A k \in 1..(Len(defineStack) - 1) : defineStack[k])
  /\ LexAt("endif") /\ lexPc' = "run" /\ Len(defineStack) > 1 =>
       defineStack' = Pop(defineStack)

\* C32: in a balanced nesting a line is lexed as active exactly when its branch
\* is selected at every level, the stack following the rule of the directives;
\* a line of a branch that is not selected is consumed whole as 'inactive'
\* text and changes neither the macro table nor the files scanned.
C32_ActiveIffSelected ==
  [][/\ StackRule
     /\ AtNestedLine =>
          /\ Top(defineStack) = LineSelected
          /\ LineSelected /\ At(Top(callStack).text, Top(callStack).offset) # "#" =>
               \A k \in 1..Len(NewTokens) : NewTokens[k].type # "inactive"
          /\ ~LineSelected =>
               /\ ConsumesLine
               /\ Len(NewTokens) >= 1
               /\ \A k \in 1..Len(NewTokens) : NewTokens[k].type = "inactive"]_vars

\* C32 as the code has it: as stated, but in a branch that is not selected a
\* '!' still starts a comment, which is consumed to the end of its line as a
\* 'comment' token.
C32_ActiveIffSelectedExceptComments ==
  [][/\ StackRule
     /\ AtNestedLine =>
          /\ Top(defineStack) = LineSelected
          /\ LineSelected /\ At(Top(callStack).text, Top(callStack).offset) # "#" =>
               \A k \in 1..Len(NewTokens) : NewTokens[k].type # "inactive"
          /\ ~LineSelected =>
               /\ ConsumesLine
               /\ Len(NewTokens) >= 1
               /\ \A k \in 1..Len(NewTokens) :
                    NewTokens[k].type = IF StartsComment(Top(callStack))
                                        THEN "comment" ELSE "inactive"
     /\ InInactiveBlock /\ ~StartsConditional(Top(callStack)) =>
          defines' = defines /\ includeStack' = includeStack
                             /\ Len(callStack') = Len(callStack)]_vars

\* the scan has left an inner conditional that was off inside a branch that
\* is on, and a line of a branch that is off has been made an 'inactive' token
C32_Witness ==
  /\ lexPc = "run"
  /\ Len(callStack) = 1
  /\ Len(defineStack) = 2 /\ Top(defineStack)
  /\ PlainLines(SplitLines(Top(callStack).text))
  /\ Balanced(SplitLines(Top(callStack).text))
  /\ Top(callStack).line >= 5
  /\ \E k \in 1..Len(Top(callStack).toks) :
       /\ Top(callStack).toks[k].type = "inactive"
       /\ Top(callStack).toks[k].value \in NestLines

(***************************************************************************)
(* The cache of include files (server.js 341-388).  The files are changed  *)
(* from outside: written, with any modification time, deleted, or made     *)
(* unreadable.                                                             *)
(***************************************************************************)
\* fs.statSync(absPath) returns / fs.readFileSync(absPath) returns
CanStat(file) == file.exists
CanRead(file) == file.exists /\ file.readable

\* variant: an entry is delivered whatever its modification time
CacheHitAnyTime(entry, mtimeMs) == entry # NoCacheEntry

\* entry && entry.mtimeMs === mtimeMs (365-366)
CacheHit(entry, mtimeMs) == entry # NoCacheEntry /\ entry.mtimeMs = mtimeMs

\* loadFileTextCached(absPath) (359-388)
LoadFileTextCached ==
  \E absPath \in Paths :
    LET file == fileSystem[absPath]
        entry == includeFileCache[absPath]
        failed == [path |-> absPath, text |-> "", error |-> TRUE]
    IN /\ IF ~CanStat(file) THEN
            /\ includeFileCache' = [includeFileCache EXCEPT ![absPath] = NoCacheEntry]
            /\ loadResult' = failed
          ELSE IF CacheHit(entry, file.mtimeMs) THEN
            /\ loadResult' = [path |-> absPath, text |-> entry.text, error |-> FALSE]
            /\ UNCHANGED includeFileCache
          ELSE IF ~CanRead(file) THEN
            /\ includeFileCache' = [includeFileCache EXCEPT ![absPath] = NoCacheEntry]
            /\ loadResult' = failed
          ELSE
            /\ includeFileCache' =
                 [includeFileCache EXCEPT ![absPath] =
                    [mtimeMs |-> file.mtimeMs, text |-> file.text]]
            /\ loadResult' = [path |-> absPath, text |-> file.text, error |-> FALSE]
       /\ UNCHANGED << fileSystem, passVars, lexVars, srvVars >>

\* a file is written: its text and its modification time are what the writer
\* makes them
WriteFile ==
  \E absPath \in Paths, text \in FileTexts, mtimeMs \in 0..MaxMtime :
    /\ fileSystem' =
         [fileSystem EXCEPT ![absPath] =
            [exists |-> TRUE,
             readable |-> IF @.exists THEN @.readable ELSE TRUE,
             mtimeMs |-> mtimeMs, text |-> text]]
    /\ UNCHANGED << includeFileCache, loadResult, passVars, lexVars, srvVars >>

DeleteFile ==
  \E absPath \in Paths :
    /\ fileSystem[absPath].exists
    /\ fileSystem' = [fileSystem EXCEPT ![absPath] = NoFile]
    /\ UNCHANGED << includeFileCache, loadResult, passVars, lexVars, srvVars >>

\* the permission to read the file is given or taken; the modification time
\* stays
SetReadable ==
  \E absPath \in Paths, readable \in BOOLEAN :
    /\ fileSystem[absPath].exists
    /\ fileSystem' = [fileSystem EXCEPT ![absPath].readable = readable]
    /\ UNCHANGED << includeFileCache, loadResult, passVars, lexVars, srvVars >>

InitCache == PassIdle /\ LexIdle /\ SrvIdle /\ FsIdle

NextCache ==
  \/ LoadFileTextCached
  \/ WriteFile
  \/ DeleteFile
  \/ SetReadable

SpecCache == InitCache /\ [][NextCache]_vars

\* --- what a load does, told from the files not changing
Loaded == loadResult'.path
LoadStep == fileSystem' = fileSystem /\ Loaded \in Paths

\* the entry of the path loaded has the file's current modification time
EntryCurrent ==
  /\ fileSystem[Loaded].exists
  /\ includeFileCache[Loaded] # NoCacheEntry
  /\ includeFileCache[Loaded].mtimeMs = fileSystem[Loaded].mtimeMs

FromCache ==
  /\ includeFileCache' = includeFileCache
  /\ loadResult' = [path |-> Loaded, text |-> includeFileCache[Loaded].text,
                    error |-> FALSE]

Fresh ==
  /\ includeFileCache' =
       [includeFileCache EXCEPT ![Loaded] =
          [mtimeMs |-> fileSystem[Loaded].mtimeMs, text |-> fileSystem[Loaded].text]]
  /\ loadResult' = [path |-> Loaded, text |-> fileSystem[Loaded].text, error |-> FALSE]

Failed ==
  /\ includeFileCache' = [includeFileCache EXCEPT ![Loaded] = NoCacheEntry]
  /\ loadResult' = [path |-> Loaded, text |-> "", error |-> TRUE]

\* every entry holds a text that was read at its modification time: an entry
\* is made by a load alone, from the file as it is
EntriesAsRead ==
  \A p \in Paths :
    includeFileCache'[p] # includeFileCache[p] /\ includeFileCache'[p] # NoCacheEntry =>
      /\ LoadStep
      /\ includeFileCache'[p] =
           [mtimeMs |-> fileSystem[p].mtimeMs, text |-> fileSystem[p].text]

\* C33 (as stated): a load returns the cached text exactly when an entry with
\* the file's current modification time exists; otherwise it re-reads and
\* overwrites the entry; when the file cannot be stat'ed or read it removes
\* the entry and returns an error with empty text.
C33_CacheByMtime ==
  [][/\ LoadStep =>
          /\ EntryCurrent <=> FromCache
          /\ ~EntryCurrent /\ CanRead(fileSystem[Loaded]) => Fresh
          /\ ~CanStat(fileSystem[Loaded]) \/ ~CanRead(fileSystem[Loaded]) => Failed
     /\ EntriesAsRead]_vars

\* C33 (amended): the entry with the current modification time is delivered
\* without a read, also when the file cannot be read any more; the load fails
\* when the file cannot be stat'ed, or has to be read and cannot be read.
C33_CacheByMtimeBeforeRead ==
  [][/\ LoadStep =>
          /\ EntryCurrent <=> FromCache
          /\ ~EntryCurrent /\ CanRead(fileSystem[Loaded]) => Fresh
          /\ \/ ~CanStat(fileSystem[Loaded])
             \/ ~EntryCurrent /\ ~CanRead(fileSystem[Loaded])
             => Failed
     /\ EntriesAsRead]_vars

\* F was loaded from the cache while the file, changed since with its
\* modification time kept, could not be read
C33_Witness ==
  /\ loadResult.path = "F" /\ ~loadResult.error
  /\ fileSystem["F"].exists /\ ~fileSystem["F"].readable
  /\ includeFileCache["F"] # NoCacheEntry
  /\ includeFileCache["F"].mtimeMs = fileSystem["F"].mtimeMs
  /\ includeFileCache["F"].text = loadResult.text
  /\ includeFileCache["F"].text # fileSystem["F"].text
  /\ includeFileCache["G"] = NoCacheEntry

(***************************************************************************)
(* Scopes and frames                                                       *)
(***************************************************************************)
ScopeKeywords == {"PROC", "PROCEDURE", "TASK", "BEGIN", "REPEAT"}

ScopeFrames == {k \in 1..Len(blockStack) : blockStack[k].keyword \in ScopeKeywords}

\* C34: the scope stack holds the global scope and one scope per open frame
\* of PROC, PROCEDURE, TASK, BEGIN or REPEAT: the global scope is never
\* popped, and every accepted END pops exactly one scope.
C34_ScopePerFrame ==
  /\ [](Len(scopeStack) >= 1 /\ Len(scopeStack) = 1 + Cardinality(ScopeFrames))
  /\ [][AtKeyword({"END"}) /\ CloserAccepted("END") =>
          /\ scopeStack' = Pop(scopeStack)
          /\ Len(scopeStack') >= 1]_vars

\* an END has closed a block with a scope that stood inside a frame without
\* a scope, itself inside an open block with a scope
C34_Witness ==
  /\ pc = "run"
  /\ Len(foldingRanges) = 1
  /\ tokens[foldingRanges[1].endToken].value = "END"
  /\ Len(scopeStack) = 2
  /\ Len(blockStack) = 2
  /\ blockStack[1].keyword \in ScopeKeywords
  /\ blockStack[2].keyword \in {"IF", "CASE"}
  /\ foldingRanges[1].startToken > blockStack[2].token

\* the scopes counted with the frames of MODULE
C34_ScopePerFrameOrModule ==
  Len(scopeStack) =
    1 + Cardinality({k \in 1..Len(blockStack) :
                       blockStack[k].keyword \in ScopeKeywords \cup {"MODULE", "SHELLMODULE"}})

(***************************************************************************)
(* Termination of the pass                                                 *)
(***************************************************************************)
\* the loop of analyze runs in one thread: it takes its next step whenever it
\* has one
SpecFair == Init /\ [][Next]_vars /\ WF_vars(Next)

PassEnded == pc \in {"done", "crashed"}

\* C35: the pass ends for every token array: from one iteration of the loop
\* to the next the index strictly increases, whichever handler runs, so a
\* token is the loop's current token at most once.
C35_PassTerminates ==
  /\ [][Running /\ pc' = "run" => i' > i]_vars
  /\ [](pc = "run" => i <= Len(tokens) + 1)
  /\ <>PassEnded

\* the pass has come to the end of a document in which a handler moved the
\* index over the RETURNS clause of a PROC header or over a PRIO clause
C35_Witness ==
  /\ pc = "done"
  /\ i = Len(tokens) + 1
  /\ \/ \E k \in 1..Len(tokens) : IsKeywordAt(k, {"RETURNS"}) /\ links[k] = 0
     \/ \E k \in 1..Len(tokens) : IsKeywordAt(k, {"PRIO"})

(***************************************************************************)
(* The bottom of the conditional stack                                     *)
(***************************************************************************)
\* C36: the conditional stack is never empty and its bottom element is true,
\* whatever #ifdef/#ifndef/#else/#endif lines were met, so that lines are
\* lexed as active whenever no conditional is open.
C36_BottomTrue ==
  /\ Len(defineStack) >= 1
  /\ defineStack[1]

\* the stack is never empty, and #endif never takes its bottom element
C36_NeverEmpty == Len(defineStack) >= 1


(***************************************************************************)
(* The document of a diagnostic (server.js 935-956, 2626-2639)             *)
(***************************************************************************)
OfDocument(d) ==
  d.token \in 1..Len(tokens) => tokens[d.token].uri = DocUri

IsNotClosed(d) == d.message[1] = "Block wird nicht geschlossen"

\* C37: every diagnostic of an analysis result belongs to the analysed
\* document; a diagnostic raised for a token of an included file is
\* suppressed, for every kind of diagnostic, the 'block not closed' warning
\* of a block opened inside an included file among them.
C37_DiagnosticsOfDocument ==
  \A d \in 1..Len(diagnostics) : OfDocument(diagnostics[d])

\* the diagnostics that pass through addDiagnostic belong to the document
C37_AddDiagnosticOfDocument ==
  \A d \in 1..Len(diagnostics) :
    ~IsNotClosed(diagnostics[d]) => OfDocument(diagnostics[d])


(***************************************************************************)
(* Unused warnings of a run (server.js 2033-2043, 2130-2153, 2213-2235)    *)
(***************************************************************************)
IsUnusedWarning(d) ==
  /\ d.severity = "warning"
  /\ d.message[1] \in {"Bezeichner nicht verwendet", "Label nicht verwendet"}

UnusedWarningsOf(tok) ==
  {d \in 1..Len(diagnostics) :
     IsUnusedWarning(diagnostics[d]) /\ diagnostics[d].token = tok}

\* C38: within one run each declared symbol receives at most one unused
\* warning, for every token stream; this includes an unreferenced label at
\* the END of its PROC/TASK body and the unused global symbols of a file with
\* more than one MODULE ... MODEND section.
C38_OneUnusedWarning ==
  \A tok \in 1..Len(tokens) : Cardinality(UnusedWarningsOf(tok)) <= 1


(***************************************************************************)
(* The cache entry of a closed document (server.js 2653-2665, 3182-3186)   *)
(***************************************************************************)
\* the document is closed and no validation of it is suspended
ClosedAndValidated == ~docOpen /\ AllValidated

\* C39: closing a document removes its cached analysis for good: in every
\* interleaving of open, change and close with the settings lookup of
\* validateTextDocument, once the document is closed (and not reopened) and
\* every pending validation has completed, documentTokenCache holds no entry
\* for it.
C39_ClosedHasNoEntry ==
  ClosedAndValidated => documentTokenCache = NoEntry

\* C39, second half: no diagnostics are published for a document after its
\* close while it stays closed.
C39_NoPublishAfterClose ==
  [][(~docOpen /\ ~docOpen') => publishedDiagnostics' = publishedDiagnostics]_vars

\* without the configuration capability no validation is ever suspended, and
\* the close does remove the entry for good
C39_ClosedHasNoEntrySync ==
  (~hasConfigurationCapability /\ ~docOpen) => documentTokenCache = NoEntry


(***************************************************************************)
(* The end of a macro expansion (server.js 1668-1690)                      *)
(***************************************************************************)
\* the replacement text of a macro is being tokenized
InExpansion == ActiveMacros # {}

\* C40: macro expansion terminates for every macro table: the tokenizing of a
\* reference to a macro X finishes, also when the replacement text of X holds
\* the name X itself or the name of a macro whose replacement leads back to X.
C40_ExpansionEnds == InExpansion ~> ~InExpansion

\* the nested call of an expansion does not read directives: `#` at the start
\* of a replacement text is no directive (1305)
C40_NoDirectiveInExpansion ==
  [][InExpansion => (defines' = defines /\ defineStack' = defineStack)]_vars

\* a macro whose replacement leads to no macro that is being expanded ends
C40_ExpansionEndsOrCycle ==
  InExpansion ~> (~InExpansion \/ lexPc = "crashed")

=============================================================================
